---- MODULE Spec2Model ----
(***************************************************************************)
(* Session state manager of cwt-cli (internal/state/manager.go), its name  *)
(* validation (internal/state/validation.go) and the checkers it drives    *)
(* (internal/clients/git/checker.go, tmux checker), modelled as a state    *)
(* machine of concurrent callers of one Manager.                           *)
(*                                                                         *)
(* Strings are sequences of Unicode code points.                           *)
(***************************************************************************)
EXTENDS Integers, Sequences, FiniteSets, TLC

(***************************************************************************)
(* Bounds of the model.                                                    *)
(***************************************************************************)
\* total number of Manager calls started in one behaviour
MaxCalls == 3
\* largest value of the wall clock (time.Now().UnixNano())
MaxClock == 1

\* the concurrent callers (goroutines) of the one Manager
Procs == {1, 2}

(***************************************************************************)
(* Strings.  A Go string is a sequence of bytes; it is represented by the  *)
(* sequence of the code points its bytes encode in UTF-8, and a byte b     *)
(* that is not part of a valid encoding by the negative number -b.         *)
(***************************************************************************)
\* utf8.RuneError, U+FFFD
RuneError == 65533

\* the rune utf8.DecodeRuneInString yields at an element of a string
DecodeRune(r) == IF r < 0 THEN RuneError ELSE r

Last(s) == s[Len(s)]

HasPrefix(s, pre) ==
    /\ Len(pre) <= Len(s)
    /\ SubSeq(s, 1, Len(pre)) = pre

HasSuffix(s, suf) ==
    /\ Len(suf) <= Len(s)
    /\ SubSeq(s, Len(s) - Len(suf) + 1, Len(s)) = suf

Contains(s, sub) ==
    \E i \in 1..(Len(s) - Len(sub) + 1) : SubSeq(s, i, i + Len(sub) - 1) = sub

\* number of bytes of the UTF-8 encoding of code point r (1 for a byte that
\* is not part of a valid encoding)
UTF8Len(r) ==
    IF r < 128 THEN 1 ELSE IF r < 2048 THEN 2 ELSE IF r < 65536 THEN 3 ELSE 4

RECURSIVE ByteLen(_)
\* Go's len(string): the number of bytes, not of characters
ByteLen(s) == IF s = <<>> THEN 0 ELSE UTF8Len(Head(s)) + ByteLen(Tail(s))

IsDigit(r) == r >= 48 /\ r <= 57
IsUpper(r) == r >= 65 /\ r <= 90
IsLower(r) == r >= 97 /\ r <= 122

\* unicode.SimpleFold orbit representative, as strings.EqualFold compares:
\* ASCII letters fold to lower case, U+017F (long s) folds with s and
\* U+212A (Kelvin sign) folds with k.
Fold(r) ==
    IF IsUpper(r) THEN r + 32
    ELSE IF r = 383 THEN 115
    ELSE IF r = 8490 THEN 107
    ELSE r

EqualFold(s, t) ==
    /\ Len(s) = Len(t)
    /\ \A i \in 1..Len(s) : Fold(DecodeRune(s[i])) = Fold(DecodeRune(t[i]))

\* unicode.Cf, the format characters (the ranges of the Unicode table
\* below U+FFFF, and the tag characters)
IsCf(r) ==
    \/ r = 173
    \/ r >= 1536 /\ r <= 1541
    \/ r = 1564
    \/ r = 1757
    \/ r = 1807
    \/ r = 2192 \/ r = 2193
    \/ r = 2274
    \/ r = 6158
    \/ r >= 8203 /\ r <= 8207
    \/ r >= 8234 /\ r <= 8238
    \/ r >= 8288 /\ r <= 8292
    \/ r >= 8294 /\ r <= 8303
    \/ r = 65279
    \/ r >= 65529 /\ r <= 65531
    \/ r >= 917505 /\ r <= 917631

(***************************************************************************)
(* strconv.Atoi on a 64-bit build: an optional sign, then one or more      *)
(* decimal digits whose value fits in an int64.                            *)
(***************************************************************************)
RECURSIVE StripZeros(_)
StripZeros(s) ==
    IF s # <<>> /\ Head(s) = 48 THEN StripZeros(Tail(s)) ELSE s

RECURSIVE LexLeq(_, _)
\* s <= t for digit strings of the same length
LexLeq(s, t) ==
    IF s = <<>> THEN TRUE
    ELSE IF Head(s) < Head(t) THEN TRUE
    ELSE IF Head(s) > Head(t) THEN FALSE
    ELSE LexLeq(Tail(s), Tail(t))

\* "9223372036854775807" and "9223372036854775808"
MaxInt64Digits == <<57,50,50,51,51,55,50,48,51,54,56,53,52,55,55,53,56,48,55>>
MinInt64Digits == <<57,50,50,51,51,55,50,48,51,54,56,53,52,55,55,53,56,48,56>>

FitsInt64(digits, negative) ==
    LET d == StripZeros(digits) IN
    \/ Len(d) < 19
    \/ /\ Len(d) = 19
       /\ LexLeq(d, IF negative THEN MinInt64Digits ELSE MaxInt64Digits)

AtoiOk(s) ==
    LET signed == s # <<>> /\ (Head(s) = 43 \/ Head(s) = 45)
        digits == IF signed THEN Tail(s) ELSE s
    IN  /\ digits # <<>>
        /\ \A i \in 1..Len(digits) : IsDigit(digits[i])
        /\ FitsInt64(digits, signed /\ Head(s) = 45)

isNumericOnly(s) == AtoiOk(s)

(***************************************************************************)
(* validateSessionName and isValidGitRefName.                              *)
(***************************************************************************)
\* " ", "~", "^", ":", "?", "*", "[", "\", "..", "@{"
invalidChars ==
    { <<32>>, <<126>>, <<94>>, <<58>>, <<63>>, <<42>>, <<91>>, <<92>>,
      <<46, 46>>, <<64, 123>> }

\* "-", "/", "."
invalidStartEnd == { <<45>>, <<47>>, <<46>> }

\* "main", "master", "HEAD", "refs"
reservedNames ==
    { <<109, 97, 105, 110>>, <<109, 97, 115, 116, 101, 114>>,
      <<72, 69, 65, 68>>, <<114, 101, 102, 115>> }

\* ".lock"
DotLock == <<46, 108, 111, 99, 107>>

\* the regular expression [a-zA-Z0-9_-]
validChar(r) == IsLower(r) \/ IsUpper(r) \/ IsDigit(r) \/ r = 95 \/ r = 45

isValidGitRefName(name) ==
    /\ ~HasSuffix(name, DotLock)
    /\ \A i \in 1..Len(name) :
          LET r == DecodeRune(name[i]) IN
          /\ ~(r < 32 \/ r = 127)
          /\ ~IsCf(r)
    /\ \E i \in 1..Len(name) : validChar(name[i])

\* TRUE iff validateSessionName returns nil
validateSessionName(name) ==
    /\ name # <<>>
    /\ ~(ByteLen(name) > 50)
    /\ \A c \in invalidChars : ~Contains(name, c)
    /\ \A c \in invalidStartEnd : ~(HasPrefix(name, c) \/ HasSuffix(name, c))
    /\ ~isNumericOnly(name)
    /\ \A r \in reservedNames : ~EqualFold(name, r)
    /\ isValidGitRefName(name)


(***************************************************************************)
(* Inputs of the model.                                                    *)
(***************************************************************************)
\* "a", "b" (valid names) and "1" (rejected: purely numeric)
Names == { <<97>>, <<98>>, <<49>> }

\* the ids a caller may pass to DeleteSession: every id generateSessionID
\* can have produced
Ids == 0..MaxClock

(***************************************************************************)
(* State.                                                                  *)
(***************************************************************************)
VARIABLES
    impl,        \* Config.TmuxChecker / GitChecker: "mock" or "real"
    now,         \* the last value time.Now().UnixNano() returned
    ncalls,      \* number of Manager calls started so far
    storeFile,   \* DataDir/sessions.json
    tempFile,    \* DataDir/sessions.json.tmp
    tmuxAlive,   \* names of the running tmux sessions
    worktrees,   \* paths of the existing git worktrees
    branches,    \* git branches created by "git worktree add -b" (real git)
    settings,    \* .claude/settings.json files: [path, id]
    stateFiles,  \* DataDir/session-state/<id>.json, for each id
    responses,   \* what ClaudeChecker.GetStatus and GitChecker.GetStatus answer
    mu,          \* Manager.mu (sync.RWMutex): [writer, readers]
    pc,          \* position of each caller inside its call
    call,        \* the call each caller is in (or was last in): [op, arg]
    core,        \* CreateSession: core; DeleteSession: *sessionToDelete
    cores,       \* the list a caller loaded (sessions / newCores / cores)
    result,      \* what the caller's last call returned
    ret,         \* the []types.Session the caller's last derivation returned
    trace        \* the Publish, checker and store calls of the caller's call

\* the event bus (events.Bus) and its subscribers
VARIABLES
    subscribers, \* Bus.subscribers: the channels, in the order of Subscribe
    busMu,       \* Bus.mu (sync.RWMutex): [writer, readers]
    chans,       \* every channel Subscribe has made: [buf, closed]
    bpc,         \* position of each caller of the bus inside its call
    bcall,       \* the bus call each caller is in (or was last in): [op, arg, out]
    bidx,        \* the index of the range loop of Publish and of Close
    received,    \* for each channel, the events read from it so far
    eos,         \* for each channel, whether a read found it closed and empty
    npub,        \* number of Publish calls made so far
    nbus,        \* number of calls of the bus made so far
    nrecv        \* number of reads of the channels made so far

\* the dashboard (tui.Model), its file watcher and its commands
VARIABLES
    modelSessions,   \* Model.sessions of the program's current Model
    fileWatcher,     \* Model.fileWatcher is not nil
    setupState,      \* setupFileWatching: "pending", "running" or "done"
    watched,         \* the paths added to the fsnotify watcher
    watcherSessions, \* m.sessions of the Model the watcher goroutine holds
    watcherEvents,   \* watcher.Events: the names of the pending file events
    sleepers,        \* the goroutines inside time.Sleep(100ms): [msg, burst]
    eventChan,       \* Model.eventChan: the messages buffered
    listeners,       \* number of startEventChannelListener commands waiting
    refreshes,       \* the refreshSessions commands running: [seq, derived, result]
    gitTimer,        \* the timer of startGitPolling is running
    tmuxTimer,       \* the timer of startTmuxPolling is running
    nstart,          \* number of refreshSessions commands started so far
    latest,          \* the derivation started last: [known, result]; shown:
                     \* the number of the derivation whose list the Model holds
    startupSessions, \* Model.sessions when the file watcher was stored
    nbursts,         \* number of bursts of file events so far
    nwrites,         \* number of file writes made so far
    delivery         \* file-event messages so far: [enqueued, handled]

\* the validation of one name
VARIABLES
    vname,           \* the name given to validateSessionName
    verdict          \* "none", or what validateSessionName returned

\* the cleanup sweep, the assistant's hooks, the new-session dialog
VARIABLES
    sweep,           \* CleanupOperations.FindAndCleanupStaleResources: its
                     \* position, its locals and its CleanupStats
    hook,            \* the hook the assistant ran last: [kind, id]
    dialog           \* the dashboard's creations: Model.creatingSessions
                     \* and the commands and messages of each submission

mgrVars == << impl, now, ncalls, storeFile, tempFile, responses, tmuxAlive, worktrees, branches,
              settings, stateFiles, mu, pc, call, core, cores, result, ret,
              trace >>

busVars == << subscribers, busMu, chans, bpc, bcall, bidx, received, eos,
              npub, nbus, nrecv >>

tuiVars == << modelSessions, fileWatcher, setupState, watched, watcherSessions,
              watcherEvents, sleepers, eventChan, listeners, refreshes,
              gitTimer, tmuxTimer, nstart, latest, startupSessions, nbursts,
              nwrites, delivery >>

valVars == << vname, verdict >>

\* the subsystems that run only in a specification of their own
quietVars == << valVars, sweep, hook, dialog >>

\* what the Manager's steps leave alone
otherVars == << busVars, tuiVars, quietVars >>

vars == << mgrVars, otherVars >>

extVars == << tmuxAlive, worktrees, branches, settings, stateFiles >>

(***************************************************************************)
(* types.CoreSession, as CreateSession builds it.                          *)
(***************************************************************************)
\* ".cwt/worktrees/"
WorktreesDir == <<46, 99, 119, 116, 47, 119, 111, 114, 107, 116, 114, 101,
                  101, 115, 47>>
\* "cwt-"
CwtPrefix == <<99, 119, 116, 45>>

WorktreePath(name) == WorktreesDir \o name
TmuxSession(name) == CwtPrefix \o name

\* generateSessionID: "session-<UnixNano>", represented by the UnixNano
generateSessionID(t) == t

NewCore(name, t) ==
    [ id |-> generateSessionID(t),
      name |-> name,
      worktree_path |-> WorktreePath(name),
      tmux_session |-> TmuxSession(name),
      created_at |-> t ]

NoCore == [ id |-> -1, name |-> <<>>, worktree_path |-> <<>>,
            tmux_session |-> <<>>, created_at |-> -1 ]

(***************************************************************************)
(* The persisted store: loadCoreSessions / saveCoreSessions.               *)
(***************************************************************************)
\* types.CoreSession as encoding/json writes it: the values of the fields
\* in the order of the struct, under the keys "id", "name",
\* "worktree_path", "tmux_session", "created_at"
\* a string as encoding/json writes it: the text coerced to valid UTF-8,
\* every byte that is not part of a valid encoding replaced by U+FFFD
JsonString(str) == [ i \in 1..Len(str) |-> DecodeRune(str[i]) ]

JsonObject(c) ==
    << c.id, JsonString(c.name), JsonString(c.worktree_path),
       JsonString(c.tmux_session), c.created_at >>

\* ... and as encoding/json reads it back into a types.CoreSession
FromJsonObject(o) ==
    [ id |-> o[1], name |-> o[2], worktree_path |-> o[3],
      tmux_session |-> o[4], created_at |-> o[5] ]

\* json.MarshalIndent(types.SessionData{Sessions: sessions}): the value of
\* "sessions" is null for a nil slice (DeleteSession's newCores when no
\* record remains), else the array of the objects in order
JsonNull == [ null |-> TRUE, array |-> <<>> ]
MarshalIndent(sessions) ==
    IF sessions = <<>> THEN JsonNull
    ELSE [ null |-> FALSE,
           array |-> [ i \in 1..Len(sessions) |-> JsonObject(sessions[i]) ] ]

\* json.Unmarshal(data, &sessionData), sessionData.Sessions: nil for null
Unmarshal(data) ==
    [ i \in 1..Len(data.array) |-> FromJsonObject(data.array[i]) ]

\* a file: absent, of zero bytes, of bytes json.Unmarshal rejects (malformed
\* content; the prefix of a document a failed write left), or a document
MissingFile == [ kind |-> "missing", data |-> JsonNull ]
EmptyFile == [ kind |-> "empty", data |-> JsonNull ]
CorruptFile == [ kind |-> "corrupt", data |-> JsonNull ]
PartialFile == [ kind |-> "partial", data |-> JsonNull ]
\* the file saveCoreSessions renames into place
JsonFile(sessions) == [ kind |-> "json", data |-> MarshalIndent(sessions) ]

\* loadCoreSessions taking a file it cannot parse for an empty store
loadCoreSessions_CorruptAsEmpty(file) ==
    IF file.kind = "json" THEN [ err |-> FALSE, sessions |-> Unmarshal(file.data) ]
    ELSE [ err |-> FALSE, sessions |-> <<>> ]

\* os.Stat: a missing file is an empty list; json.Unmarshal fails on a
\* zero-byte file and on malformed content
loadCoreSessions(file) ==
    IF file.kind = "missing" THEN [ err |-> FALSE, sessions |-> <<>> ]
    ELSE IF file.kind = "json" THEN [ err |-> FALSE, sessions |-> Unmarshal(file.data) ]
    ELSE [ err |-> TRUE, sessions |-> <<>> ]

\* the file after saveCoreSessions(sessions) returned: the rename happened
\* iff every step succeeded (ok)
saveCoreSessions(file, sessions, ok) ==
    IF ok THEN JsonFile(sessions) ELSE file

\* sessions.json.tmp after saveCoreSessions returned: renamed away when
\* every step succeeded; else untouched (MkdirAll or the open failed),
\* truncated or partly written (WriteFile failed), or removed (Rename
\* failed)
TempAfterSave(temp, ok) ==
    IF ok THEN {MissingFile} ELSE {temp, EmptyFile, PartialFile, MissingFile}

\* the records of the persisted store
StoreRecords ==
    IF storeFile.kind = "json" THEN Unmarshal(storeFile.data) ELSE <<>>

NameIn(sessions, name) == \E i \in 1..Len(sessions) : sessions[i].name = name
IdIn(sessions, id) == \E i \in 1..Len(sessions) : sessions[i].id = id

(***************************************************************************)
(* Bookkeeping of a call.                                                  *)
(***************************************************************************)
Rec(op, ok) == [ op |-> op, ok |-> ok ]

\* the caller's call goes on to the next step
Goto(p, where) ==
    /\ pc' = [pc EXCEPT ![p] = where]
    /\ result' = [result EXCEPT ![p] = "pending"]

\* the same, the locals of the call untouched
Continue(p, where) ==
    /\ Goto(p, where)
    /\ UNCHANGED << core, cores >>

\* the caller's call returns r: its locals are gone
Return(p, r) ==
    /\ pc' = [pc EXCEPT ![p] = "idle"]
    /\ result' = [result EXCEPT ![p] = r]
    /\ core' = [core EXCEPT ![p] = NoCore]
    /\ cores' = [cores EXCEPT ![p] = <<>>]

Log(p, entries) == trace' = [trace EXCEPT ![p] = trace[p] \o entries]

HasOp(p, op) == \E i \in 1..Len(trace[p]) : trace[p][i].op = op
HasOk(p, op) == \E i \in 1..Len(trace[p]) : trace[p][i] = Rec(op, TRUE)

\* sync.RWMutex
Unlocked == [ writer |-> 0, readers |-> {} ]
CanLock == mu.writer = 0 /\ mu.readers = {}
CanRLock == mu.writer = 0

(***************************************************************************)
(* The session-state files and the answers of the status checkers.         *)
(***************************************************************************)
\* time.Time{}: the zero time, before every clock reading
ZeroTime == -1

\* session-state/<id>.json: absent, of bytes json.Unmarshal rejects, or a
\* types.SessionState (its claude_state and last_event_time)
NoStateFile ==
    [ kind |-> "missing", claude_state |-> "", last_event_time |-> ZeroTime ]
BadStateFile ==
    [ kind |-> "corrupt", claude_state |-> "", last_event_time |-> ZeroTime ]
SessionStateFile(claudeState, t) ==
    [ kind |-> "json", claude_state |-> claudeState, last_event_time |-> t ]

\* types.LoadSessionState(DataDir, core.ID): (nil, nil) without a file,
\* (nil, err) for a file it cannot parse, else (&state, nil)
LoadSessionState(id) ==
    LET f == stateFiles[id]
    IN  [ err |-> f.kind = "corrupt",
          state |-> IF f.kind = "json" THEN f ELSE NoStateFile ]

\* types.GetClaudeStatusFromState: Availability is left at its zero value
GetClaudeStatusFromState(state) ==
    [ state |-> CASE state.claude_state = "working" -> "working"
                  [] state.claude_state = "waiting_for_input" -> "waiting"
                  [] state.claude_state = "complete" -> "complete"
                  [] state.claude_state = "idle" -> "idle"
                  [] OTHER -> "unknown",
      availability |-> "",
      last_message |-> state.last_event_time ]

\* types.ParseClaudeStateFromEvent, for an event without data
ParseClaudeStateFromEvent(eventType) ==
    CASE eventType = "notification" -> "idle"
      [] eventType = "preToolUse" -> "working"
      [] eventType = "postToolUse" -> "idle"
      [] eventType = "stop" -> "complete"
      [] OTHER -> "idle"

\* the event the assistant's hook reports
HookEvents == { "preToolUse" }

\* claude.MockChecker.GetStatus and git.MockChecker.GetStatus for a path
\* nothing was set for; a real checker answers from the assistant's logs
\* and from "git status"
UnknownStatus ==
    [ state |-> "unknown", availability |-> "very_stale",
      last_message |-> ZeroTime ]
\* the worktree paths the checkers can be asked about
Paths == { WorktreePath(name) : name \in Names }

NoResponses ==
    [ claude |-> [path \in Paths |-> UnknownStatus],
      git |-> [path \in Paths |-> FALSE] ]

\* Manager.calculateLastActivity
calculateLastActivity(created_at, claudeStatus) ==
    IF /\ claudeStatus.last_message # ZeroTime
       /\ claudeStatus.last_message > created_at
    THEN claudeStatus.last_message
    ELSE created_at

\* what DeriveFreshSessions returns as its []types.Session: nil (with an
\* error), or a list made with make([]types.Session, len(cores))
NilSessions == [ nil |-> TRUE, list |-> <<>> ]
SessionList(l) == [ nil |-> FALSE, list |-> l ]

\* events.NewBus(): no subscriber, no call made
NewBus ==
    /\ subscribers = <<>>
    /\ busMu = Unlocked
    /\ chans = <<>>
    /\ bpc = [p \in Procs |-> "idle"]
    /\ bcall = [p \in Procs |-> [op |-> "none", arg |-> 0, out |-> 0]]
    /\ bidx = [p \in Procs |-> 0]
    /\ received = <<>>
    /\ eos = <<>>
    /\ npub = 0
    /\ nbus = 0
    /\ nrecv = 0

\* no dashboard is running
NoDashboard ==
    /\ modelSessions = <<>>
    /\ fileWatcher = FALSE
    /\ setupState = "none"
    /\ watched = {}
    /\ watcherSessions = <<>>
    /\ watcherEvents = <<>>
    /\ sleepers = <<>>
    /\ eventChan = <<>>
    /\ listeners = 0
    /\ refreshes = {}
    /\ gitTimer = FALSE
    /\ tmuxTimer = FALSE
    /\ nstart = 0
    /\ latest = [known |-> FALSE, result |-> <<>>, shown |-> 0]
    /\ startupSessions = <<>>
    /\ nbursts = 0
    /\ nwrites = 0
    /\ delivery = [enqueued |-> 0, handled |-> 0]

\* no name is being validated
NoValidation == vname = <<>> /\ verdict = "none"

\* no cleanup is running
NoStats == [ StaleSessions |-> 0, OrphanedTmux |-> 0, OrphanedWorktrees |-> 0,
             Cleaned |-> 0, Failed |-> 0 ]

NoSweep ==
    sweep = [ pc |-> "none", dryRun |-> FALSE, stale |-> <<>>, listed |-> {},
              todo |-> {}, stats |-> NoStats, err |-> "none",
              killed |-> {}, removed |-> {} ]

\* the assistant has run no hook
NoHook == hook = [ kind |-> "none", id |-> -1 ]

\* no session is being created from the dashboard
NoDialog == dialog = [ creatingSessions |-> {}, cmds |-> {}, nsubmit |-> 0 ]

\* nothing of these is running
Quiet == NoValidation /\ NoSweep /\ NoHook /\ NoDialog

\* nothing but the Manager is running
ManagerOnly == NewBus /\ NoDashboard /\ Quiet

Init ==
    /\ impl \in {"mock", "real"}
    /\ now = 0
    /\ ncalls = 0
    /\ storeFile \in {MissingFile, EmptyFile, CorruptFile}
    /\ tempFile = MissingFile
    /\ tmuxAlive = {}
    /\ worktrees = {}
    /\ branches = {}
    /\ settings = {}
    /\ stateFiles = [id \in Ids |-> NoStateFile]
    /\ responses = NoResponses
    /\ mu = Unlocked
    /\ pc = [p \in Procs |-> "idle"]
    /\ call = [p \in Procs |-> [op |-> "none", arg |-> <<>>]]
    /\ core = [p \in Procs |-> NoCore]
    /\ cores = [p \in Procs |-> <<>>]
    /\ result = [p \in Procs |-> "none"]
    /\ ret = [p \in Procs |-> NilSessions]
    /\ trace = [p \in Procs |-> <<>>]
    /\ ManagerOnly

\* a new call is made: the callers are interchangeable, so it is the
\* lowest-numbered idle one that makes it
Begin(p, op, arg) ==
    /\ pc[p] = "idle"
    /\ \A q \in Procs : q < p => pc[q] # "idle"
    /\ ncalls < MaxCalls
    /\ ncalls' = ncalls + 1
    /\ call' = [call EXCEPT ![p] = [op |-> op, arg |-> arg]]
    /\ ret' = [ret EXCEPT ![p] = NilSessions]


(***************************************************************************)
(* The checkers (tmux.Checker, git.Checker) and the session-state files.   *)
(* ok is the outcome of the call: the mock fails when the test configured  *)
(* it to (ShouldFail, ShouldFailCreate, ValidRepo), the real one when the  *)
(* git or tmux command fails.                                              *)
(***************************************************************************)
\* RealChecker.pathExists: the worktree directory is there
pathExists(name) ==
    \/ WorktreePath(name) \in worktrees
    \/ \E s \in settings : s.name = name

\* RealChecker.BranchExists
BranchExists(name) == name \in branches

\* git.Checker.CreateWorktree(core.Name, core.WorktreePath)
CreateWorktree(name, ok) ==
    /\ (ok /\ impl = "real") => ~pathExists(name) /\ ~BranchExists(name)
    /\ worktrees' = IF ok THEN worktrees \cup {WorktreePath(name)} ELSE worktrees
    /\ branches' = IF ok /\ impl = "real" THEN branches \cup {name} ELSE branches

\* git.Checker.RemoveWorktree(core.WorktreePath): "git worktree remove
\* --force" deletes the directory, the mock only forgets the path
RemoveWorktree(name, ok) ==
    /\ (ok /\ impl = "real") => WorktreePath(name) \in worktrees
    /\ worktrees' = IF ok THEN worktrees \ {WorktreePath(name)} ELSE worktrees
    /\ settings' = IF ok /\ impl = "real"
                   THEN {s \in settings : s.name # name}
                   ELSE settings

\* Manager.createClaudeSettings(core.WorktreePath, core.ID): writes
\* <worktree>/.claude/settings.json with the hooks of this session id
createClaudeSettings(name, id, ok) ==
    settings' = IF ok
                THEN {s \in settings : s.name # name} \cup {[name |-> name, id |-> id]}
                ELSE settings

\* tmux.Checker.CreateSession(core.TmuxSession, ...): "tmux new-session -s"
\* refuses a duplicate session name, the mock does not
TmuxCreateSession(name, ok) ==
    /\ (ok /\ impl = "real") => TmuxSession(name) \notin tmuxAlive
    /\ tmuxAlive' = IF ok THEN tmuxAlive \cup {TmuxSession(name)} ELSE tmuxAlive

\* tmux.Checker.KillSession(core.TmuxSession): the mock never fails,
\* "tmux kill-session" fails when there is no such session
KillSession(name, ok) ==
    /\ impl = "mock" => ok
    /\ (ok /\ impl = "real") => TmuxSession(name) \in tmuxAlive
    /\ tmuxAlive' = IF ok THEN tmuxAlive \ {TmuxSession(name)} ELSE tmuxAlive

\* tmux.Checker.IsSessionAlive
IsSessionAlive(tmuxName) == tmuxName \in tmuxAlive

\* types.RemoveSessionState(DataDir, core.ID): a file that is not there is
\* no error
RemoveSessionState(id, ok) ==
    /\ stateFiles[id] = NoStateFile => ok
    /\ stateFiles' = IF ok THEN [stateFiles EXCEPT ![id] = NoStateFile]
                   ELSE stateFiles

\* deriveSession asking the checker first, the state file only when the
\* checker knows nothing
deriveSession_CheckerFirst(c) ==
    LET loaded == LoadSessionState(c.id)
        claudeStatus ==
            IF responses.claude[c.worktree_path].state = "unknown"
                 /\ ~loaded.err /\ loaded.state # NoStateFile
            THEN GetClaudeStatusFromState(loaded.state)
            ELSE responses.claude[c.worktree_path]
    IN  [ core |-> c,
          is_alive |-> IsSessionAlive(c.tmux_session),
          git_status |-> responses.git[c.worktree_path],
          claude_status |-> claudeStatus,
          last_activity |-> calculateLastActivity(c.created_at, claudeStatus) ]

\* deriveSession stamping the session with the number of the call
deriveSession_Stamped(c) ==
    LET loaded == LoadSessionState(c.id)
        claudeStatus ==
            IF ~loaded.err /\ loaded.state # NoStateFile
            THEN GetClaudeStatusFromState(loaded.state)
            ELSE responses.claude[c.worktree_path]
    IN  [ core |-> c,
          is_alive |-> IsSessionAlive(c.tmux_session),
          git_status |-> responses.git[c.worktree_path],
          claude_status |-> claudeStatus,
          last_activity |-> ncalls ]

\* Manager.deriveSession: the liveness of the tmux session, the git status,
\* the assistant status from the state file (preferred) or from the checker
deriveSession(c) ==
    LET loaded == LoadSessionState(c.id)
        claudeStatus ==
            IF ~loaded.err /\ loaded.state # NoStateFile
            THEN GetClaudeStatusFromState(loaded.state)
            ELSE responses.claude[c.worktree_path]
    IN  [ core |-> c,
          is_alive |-> IsSessionAlive(c.tmux_session),
          git_status |-> responses.git[c.worktree_path],
          claude_status |-> claudeStatus,
          last_activity |-> calculateLastActivity(c.created_at, claudeStatus) ]

DeriveSessions(cs) == [ i \in 1..Len(cs) |-> deriveSession(cs[i]) ]

\* SessionOperations.FindSessionByName over a derived list
FindSessionByName(sessions, name) ==
    IF \E i \in 1..Len(sessions) : sessions[i].core.name = name
    THEN "found" ELSE "NotFound"

(***************************************************************************)
(* The environment: the hook command "cwt __hook <id> ..." that the         *)
(* assistant running in a session's tmux session invokes.                  *)
(***************************************************************************)
runHookCmd ==
    /\ \E s \in settings :
          /\ TmuxSession(s.name) \in tmuxAlive
          /\ stateFiles[s.id] = NoStateFile
          /\ \E eventType \in HookEvents :
                stateFiles' =
                    [stateFiles EXCEPT ![s.id] =
                        SessionStateFile(ParseClaudeStateFromEvent(eventType), now)]
    /\ UNCHANGED << otherVars, impl, tempFile, responses, now, ncalls, storeFile, tmuxAlive, worktrees,
                    branches, settings, mu, pc, call, core, cores, result,
                    ret, trace >>


(***************************************************************************)
(* Manager.CreateSession.                                                  *)
(***************************************************************************)
\* CreationFailed with the Publish forgotten
CreationFailed_NoEvent(p, entries, r) ==
    /\ Log(p, entries)
    /\ Return(p, r)

\* Publish(types.SessionCreationFailed{...}) and return the error
CreationFailed(p, entries, r) ==
    /\ Log(p, entries \o << Rec("Publish:SessionCreationFailed", TRUE) >>)
    /\ Return(p, r)

\* time.Now(): the clock never goes back, and two reads may fall in the
\* same nanosecond
TimeNow == { t \in {now, now + 1} : t <= MaxClock }

\* CreateSession with the event published before the name is validated
CreateSession_PublishFirst(p, name) ==
    /\ Begin(p, "CreateSession", name)
    /\ trace' = [trace EXCEPT ![p] =
                   << Rec("Publish:SessionCreationStarted", TRUE) >>]
    /\ IF ~validateSessionName(name)
       THEN /\ Return(p, "InvalidName")
            /\ now' = now
       ELSE /\ Goto(p, "checkDuplicateName")
            /\ cores' = cores
            /\ \E t \in TimeNow :
                  /\ now' = t
                  /\ core' = [core EXCEPT ![p] = NewCore(name, t)]
    /\ UNCHANGED << otherVars, impl, tempFile, responses, storeFile, extVars, mu >>

\* validateSessionName, Publish(SessionCreationStarted), the core session
CreateSession(p, name) ==
    /\ Begin(p, "CreateSession", name)
    /\ IF ~validateSessionName(name)
       THEN /\ Return(p, "InvalidName")
            /\ trace' = [trace EXCEPT ![p] = <<>>]
            /\ now' = now
       ELSE /\ Goto(p, "checkDuplicateName")
            /\ trace' = [trace EXCEPT ![p] =
                           << Rec("Publish:SessionCreationStarted", TRUE) >>]
            /\ cores' = cores
            /\ \E t \in TimeNow :
                  /\ now' = t
                  /\ core' = [core EXCEPT ![p] = NewCore(name, t)]
    /\ UNCHANGED << otherVars, impl, tempFile, responses, storeFile, extVars, mu >>

\* checkDuplicateName comparing the name with the wrong field
checkDuplicateName_WrongField(sessions, name) ==
    \E i \in 1..Len(sessions) : sessions[i].tmux_session = name

\* Manager.checkDuplicateName: the loop over the loaded sessions
checkDuplicateName(sessions, name) == NameIn(sessions, name)

\* the duplicate-name check of CreateSession; it takes no lock
CheckDuplicate(p) ==
    /\ pc[p] = "checkDuplicateName"
    /\ LET r == loadCoreSessions(storeFile) IN
       IF r.err
       THEN CreationFailed(p, << Rec("store:load", FALSE) >>, "LoadError")
       ELSE IF checkDuplicateName(r.sessions, core[p].name)
       THEN CreationFailed(p, << Rec("store:load", TRUE) >>, "DuplicateName")
       ELSE /\ Log(p, << Rec("store:load", TRUE) >>)
            /\ Continue(p, "IsValidRepository")
    /\ UNCHANGED << otherVars, impl, tempFile, responses, now, ncalls, storeFile, extVars, mu, call, ret >>

\* createExternalResources: GitChecker.IsValidRepository("")
ValidateRepository(p) ==
    /\ pc[p] = "IsValidRepository"
    /\ \E ok \in BOOLEAN :
          IF ok
          THEN /\ Log(p, << Rec("git:IsValidRepository", TRUE) >>)
               /\ Continue(p, "CreateWorktree")
          ELSE CreationFailed(p, << Rec("git:IsValidRepository", FALSE) >>,
                              "ProvisioningFailed")
    /\ UNCHANGED << otherVars, impl, tempFile, responses, now, ncalls, storeFile, extVars, mu, call, ret >>

\* createExternalResources: GitChecker.CreateWorktree
ProvisionWorktree(p) ==
    /\ pc[p] = "CreateWorktree"
    /\ \E ok \in BOOLEAN :
          /\ CreateWorktree(core[p].name, ok)
          /\ IF ok
             THEN /\ Log(p, << Rec("git:CreateWorktree", TRUE) >>)
                  /\ Continue(p, "createClaudeSettings")
             ELSE CreationFailed(p, << Rec("git:CreateWorktree", FALSE) >>,
                                 "ProvisioningFailed")
    /\ UNCHANGED << otherVars, impl, tempFile, responses, now, ncalls, storeFile, tmuxAlive, settings,
                    stateFiles, mu, call, ret >>

\* ProvisionSettings with the record saved before the tmux session is
\* started
ProvisionSettings_SkipTmux(p) ==
    /\ pc[p] = "createClaudeSettings"
    /\ \E ok \in BOOLEAN :
          /\ createClaudeSettings(core[p].name, core[p].id, ok)
          /\ Log(p, << Rec("createClaudeSettings", ok) >>)
          /\ Continue(p, IF ok THEN "addCoreSession" ELSE "rollbackWorktree")
    /\ UNCHANGED << otherVars, impl, tempFile, responses, now, ncalls, storeFile, tmuxAlive, worktrees,
                    branches, stateFiles, mu, call, ret >>

\* createExternalResources: createClaudeSettings, on failure the rollback
ProvisionSettings(p) ==
    /\ pc[p] = "createClaudeSettings"
    /\ \E ok \in BOOLEAN :
          /\ createClaudeSettings(core[p].name, core[p].id, ok)
          /\ Log(p, << Rec("createClaudeSettings", ok) >>)
          /\ Continue(p, IF ok THEN "TmuxCreateSession" ELSE "rollbackWorktree")
    /\ UNCHANGED << otherVars, impl, tempFile, responses, now, ncalls, storeFile, tmuxAlive, worktrees,
                    branches, stateFiles, mu, call, ret >>

\* ProvisionTmux with the rollback forgotten: a failed tmux start returns
\* the error and leaves the worktree behind
ProvisionTmux_NoRollback(p) ==
    /\ pc[p] = "TmuxCreateSession"
    /\ \E ok \in BOOLEAN :
          /\ TmuxCreateSession(core[p].name, ok)
          /\ IF ok
             THEN /\ Log(p, << Rec("tmux:CreateSession", TRUE) >>)
                  /\ Continue(p, "addCoreSession")
             ELSE /\ Log(p, << Rec("tmux:CreateSession", FALSE),
                               Rec("Publish:SessionCreationFailed", TRUE) >>)
                  /\ Return(p, "ProvisioningFailed")
    /\ UNCHANGED << otherVars, impl, tempFile, responses, now, ncalls, storeFile, worktrees, branches,
                    settings, stateFiles, mu, call, ret >>

\* createExternalResources: TmuxChecker.CreateSession, on failure the rollback
ProvisionTmux(p) ==
    /\ pc[p] = "TmuxCreateSession"
    /\ \E ok \in BOOLEAN :
          /\ TmuxCreateSession(core[p].name, ok)
          /\ Log(p, << Rec("tmux:CreateSession", ok) >>)
          /\ Continue(p, IF ok THEN "addCoreSession" ELSE "rollbackWorktree")
    /\ UNCHANGED << otherVars, impl, tempFile, responses, now, ncalls, storeFile, worktrees, branches,
                    settings, stateFiles, mu, call, ret >>

\* createExternalResources: "Rollback git worktree", then the error
RollbackWorktree(p) ==
    /\ pc[p] = "rollbackWorktree"
    /\ \E ok \in BOOLEAN :
          /\ RemoveWorktree(core[p].name, ok)
          /\ CreationFailed(p, << Rec("git:RemoveWorktree", ok) >>,
                            "ProvisioningFailed")
    /\ UNCHANGED << otherVars, impl, tempFile, responses, now, ncalls, storeFile, tmuxAlive, branches,
                    stateFiles, mu, call, ret >>

\* addCoreSession loading the store without waiting for the lock
AddLock_NoWait(p) ==
    /\ pc[p] = "addCoreSession"
    /\ mu' = [mu EXCEPT !.writer = p]
    /\ Continue(p, "addLoad")
    /\ UNCHANGED << otherVars, impl, tempFile, responses, now, ncalls, storeFile, extVars, call, ret, trace >>

\* addCoreSession: m.mu.Lock()
AddLock(p) ==
    /\ pc[p] = "addCoreSession"
    /\ CanLock
    /\ mu' = [mu EXCEPT !.writer = p]
    /\ Continue(p, "addLoad")
    /\ UNCHANGED << otherVars, impl, tempFile, responses, now, ncalls, storeFile, extVars, call, ret, trace >>

\* addCoreSession: loadCoreSessions under the lock; an error returns
\* through the deferred Unlock
AddLoad(p) ==
    /\ pc[p] = "addLoad"
    /\ LET r == loadCoreSessions(storeFile) IN
       /\ Log(p, << Rec("store:load", ~r.err) >>)
       /\ cores' = [cores EXCEPT ![p] = r.sessions]
       /\ IF r.err
          THEN /\ mu' = Unlocked
               /\ Goto(p, "cleanupKill")
          ELSE /\ mu' = mu
               /\ Goto(p, "addSave")
    /\ UNCHANGED << otherVars, impl, tempFile, responses, now, ncalls, storeFile, extVars, call, core, ret >>

\* AddSave with the rollback of the external resources forgotten
AddSave_NoCleanup(p) ==
    /\ pc[p] = "addSave"
    /\ \E ok \in BOOLEAN :
          /\ storeFile' = saveCoreSessions(storeFile, Append(cores[p], core[p]), ok)
          /\ tempFile' \in TempAfterSave(tempFile, ok)
          /\ IF ok
             THEN /\ Log(p, << Rec("store:save", TRUE) >>)
                  /\ Continue(p, "deriveSession")
             ELSE /\ Log(p, << Rec("store:save", FALSE),
                               Rec("Publish:SessionCreationFailed", TRUE) >>)
                  /\ Return(p, "PersistenceFailed")
    /\ mu' = Unlocked
    /\ UNCHANGED << otherVars, impl, responses, now, ncalls, extVars, call, ret >>

\* addCoreSession: append, saveCoreSessions, then the deferred Unlock
AddSave(p) ==
    /\ pc[p] = "addSave"
    /\ \E ok \in BOOLEAN :
          /\ storeFile' = saveCoreSessions(storeFile, Append(cores[p], core[p]), ok)
          /\ tempFile' \in TempAfterSave(tempFile, ok)
          /\ Log(p, << Rec("store:save", ok) >>)
          /\ Continue(p, IF ok THEN "deriveSession" ELSE "cleanupKill")
    /\ mu' = Unlocked
    /\ UNCHANGED << otherVars, impl, responses, now, ncalls, extVars, call, ret >>

\* deriveSession(core) and Publish(SessionCreated{Session: session})
CreateDone(p) ==
    /\ pc[p] = "deriveSession"
    /\ Log(p, << Rec("Publish:SessionCreated", TRUE) >>)
    /\ Return(p, "ok")
    /\ UNCHANGED << otherVars, impl, tempFile, responses, now, ncalls, storeFile, extVars, mu, call, ret >>

(***************************************************************************)
(* Manager.cleanupExternalResources(core): three calls whose errors are    *)
(* ignored.  CreateSession runs it after a failed addCoreSession,          *)
(* DeleteSession runs it under the lock.                                   *)
(***************************************************************************)
CleanupKill(p) ==
    /\ pc[p] = "cleanupKill"
    /\ \E ok \in BOOLEAN :
          /\ KillSession(core[p].name, ok)
          /\ Log(p, << Rec("tmux:KillSession", ok) >>)
    /\ Continue(p, "cleanupRemoveWorktree")
    /\ UNCHANGED << otherVars, impl, tempFile, responses, now, ncalls, storeFile, worktrees, branches,
                    settings, stateFiles, mu, call, ret >>

\* cleanupExternalResources giving up at a failed RemoveWorktree
CleanupRemoveWorktree_AbortOnError(p) ==
    /\ pc[p] = "cleanupRemoveWorktree"
    /\ \E ok \in BOOLEAN :
          /\ RemoveWorktree(core[p].name, ok)
          /\ Log(p, << Rec("git:RemoveWorktree", ok) >>)
          /\ IF ok THEN Continue(p, "cleanupRemoveState") /\ mu' = mu
             ELSE /\ Return(p, "PersistenceFailed")
                  /\ mu' = IF call[p].op = "DeleteSession" THEN Unlocked ELSE mu
    /\ UNCHANGED << otherVars, impl, tempFile, responses, now, ncalls, storeFile, tmuxAlive, branches,
                    stateFiles, call, ret >>

CleanupRemoveWorktree(p) ==
    /\ pc[p] = "cleanupRemoveWorktree"
    /\ \E ok \in BOOLEAN :
          /\ RemoveWorktree(core[p].name, ok)
          /\ Log(p, << Rec("git:RemoveWorktree", ok) >>)
    /\ Continue(p, "cleanupRemoveState")
    /\ UNCHANGED << otherVars, impl, tempFile, responses, now, ncalls, storeFile, tmuxAlive, branches,
                    stateFiles, mu, call, ret >>

\* the last call of cleanupExternalResources, then what the caller does next
CleanupRemoveState(p) ==
    /\ pc[p] = "cleanupRemoveState"
    /\ \E ok \in BOOLEAN :
          /\ RemoveSessionState(core[p].id, ok)
          /\ IF call[p].op = "CreateSession"
             THEN CreationFailed(p, << Rec("RemoveSessionState", ok) >>,
                                 "PersistenceFailed")
             ELSE /\ Log(p, << Rec("RemoveSessionState", ok) >>)
                  /\ Continue(p, "delSave")
    /\ UNCHANGED << otherVars, impl, tempFile, responses, now, ncalls, storeFile, tmuxAlive, worktrees,
                    branches, settings, mu, call, ret >>

(***************************************************************************)
(* Manager.DeleteSession.                                                  *)
(***************************************************************************)
\* the loop of DeleteSession: newCores, the records whose ID differs
newCores(cs, sessionID) == SelectSeq(cs, LAMBDA c : c.id # sessionID)

\* *sessionToDelete with one loop variable shared by all iterations: the
\* pointer taken at a match ends up at the last record of the list
sessionToDelete_SharedLoopVar(cs, sessionID) ==
    IF \A i \in 1..Len(cs) : cs[i].id # sessionID THEN NoCore
    ELSE cs[Len(cs)]

\* the loop of DeleteSession: *sessionToDelete.  The loop variable is per
\* iteration (the build pins Go 1.23), so the pointer taken at a match
\* refers to the matched record; a later match overwrites it.
sessionToDelete(cs, sessionID) ==
    LET hits == SelectSeq(cs, LAMBDA c : c.id = sessionID)
    IN  IF hits = <<>> THEN NoCore ELSE hits[Len(hits)]

DeleteSession(p, sessionID) ==
    /\ Begin(p, "DeleteSession", sessionID)
    /\ Continue(p, "delLock")
    /\ trace' = [trace EXCEPT ![p] = <<>>]
    /\ UNCHANGED << otherVars, impl, tempFile, responses, now, storeFile, extVars, mu >>

\* m.mu.Lock()
DelLock(p) ==
    /\ pc[p] = "delLock"
    /\ CanLock
    /\ mu' = [mu EXCEPT !.writer = p]
    /\ Continue(p, "delLoad")
    /\ UNCHANGED << otherVars, impl, tempFile, responses, now, ncalls, storeFile, extVars, call, ret, trace >>

\* loadCoreSessions, the partition, and the not-found return
DelLoad(p) ==
    /\ pc[p] = "delLoad"
    /\ LET r == loadCoreSessions(storeFile)
           found == sessionToDelete(r.sessions, call[p].arg)
       IN  IF r.err
           THEN /\ Log(p, << Rec("store:load", FALSE) >>)
                /\ Return(p, "LoadError")
                /\ mu' = Unlocked
           ELSE IF found = NoCore
           THEN /\ Log(p, << Rec("store:load", TRUE),
                             Rec("Publish:SessionDeletionFailed", TRUE) >>)
                /\ Return(p, "NotFound")
                /\ mu' = Unlocked
           ELSE /\ Log(p, << Rec("store:load", TRUE) >>)
                /\ core' = [core EXCEPT ![p] = found]
                /\ cores' = [cores EXCEPT ![p] = newCores(r.sessions, call[p].arg)]
                /\ Goto(p, "cleanupKill")
                /\ mu' = mu
    /\ UNCHANGED << otherVars, impl, tempFile, responses, now, ncalls, storeFile, extVars, call, ret >>

\* DeleteSession ignoring the error of saveCoreSessions
DelSave_ErrorIgnored(p) ==
    /\ pc[p] = "delSave"
    /\ \E ok \in BOOLEAN :
          /\ storeFile' = saveCoreSessions(storeFile, cores[p], ok)
          /\ tempFile' \in TempAfterSave(tempFile, ok)
          /\ Log(p, << Rec("store:save", ok),
                       Rec("Publish:SessionDeleted", TRUE) >>)
          /\ Return(p, "ok")
    /\ mu' = Unlocked
    /\ UNCHANGED << otherVars, impl, responses, now, ncalls, extVars, call, ret >>

\* saveCoreSessions(newCores), the event, and the deferred Unlock
DelSave(p) ==
    /\ pc[p] = "delSave"
    /\ \E ok \in BOOLEAN :
          /\ storeFile' = saveCoreSessions(storeFile, cores[p], ok)
          /\ tempFile' \in TempAfterSave(tempFile, ok)
          /\ IF ok
             THEN /\ Log(p, << Rec("store:save", TRUE),
                               Rec("Publish:SessionDeleted", TRUE) >>)
                  /\ Return(p, "ok")
             ELSE /\ Log(p, << Rec("store:save", FALSE),
                               Rec("Publish:SessionDeletionFailed", TRUE) >>)
                  /\ Return(p, "PersistenceFailed")
    /\ mu' = Unlocked
    /\ UNCHANGED << otherVars, impl, responses, now, ncalls, extVars, call, ret >>

(***************************************************************************)
(* Manager.DeriveFreshSessions.                                            *)
(***************************************************************************)
DeriveFreshSessions(p) ==
    /\ Begin(p, "DeriveFreshSessions", <<>>)
    /\ Continue(p, "deriveLock")
    /\ trace' = [trace EXCEPT ![p] = <<>>]
    /\ UNCHANGED << otherVars, impl, tempFile, responses, now, storeFile, extVars, mu >>

\* DeriveFreshSessions not waiting for the writer
DeriveLock_NoWait(p) ==
    /\ pc[p] = "deriveLock"
    /\ mu' = [mu EXCEPT !.readers = @ \cup {p}]
    /\ Continue(p, "deriveLoad")
    /\ UNCHANGED << otherVars, impl, tempFile, responses, now, ncalls, storeFile, extVars, call, ret, trace >>

\* m.mu.RLock()
DeriveLock(p) ==
    /\ pc[p] = "deriveLock"
    /\ CanRLock
    /\ mu' = [mu EXCEPT !.readers = @ \cup {p}]
    /\ Continue(p, "deriveLoad")
    /\ UNCHANGED << otherVars, impl, tempFile, responses, now, ncalls, storeFile, extVars, call, ret, trace >>

\* loadCoreSessions, deriveSession for each record, the deferred RUnlock
DeriveLoad(p) ==
    /\ pc[p] = "deriveLoad"
    /\ LET r == loadCoreSessions(storeFile) IN
       /\ Log(p, << Rec("store:load", ~r.err) >>)
       /\ ret' = [ret EXCEPT ![p] = IF r.err THEN NilSessions
                                   ELSE SessionList(DeriveSessions(r.sessions))]
       /\ Return(p, IF r.err THEN "LoadError" ELSE "ok")
    /\ mu' = [mu EXCEPT !.readers = @ \ {p}]
    /\ UNCHANGED << otherVars, impl, tempFile, responses, now, ncalls, storeFile, extVars, call >>

(***************************************************************************)
(* The system: any number of callers of one Manager, and the environment.  *)
(***************************************************************************)
Next ==
    \/ runHookCmd
    \/ \E p \in Procs :
          \/ \E name \in Names : CreateSession(p, name)
          \/ CheckDuplicate(p)
          \/ ValidateRepository(p)
          \/ ProvisionWorktree(p)
          \/ ProvisionSettings(p)
          \/ ProvisionTmux(p)
          \/ RollbackWorktree(p)
          \/ AddLock(p)
          \/ AddLoad(p)
          \/ AddSave(p)
          \/ CreateDone(p)
          \/ CleanupKill(p)
          \/ CleanupRemoveWorktree(p)
          \/ CleanupRemoveState(p)
          \/ \E id \in Ids : DeleteSession(p, id)
          \/ DelLock(p)
          \/ DelLoad(p)
          \/ DelSave(p)
          \/ DeriveFreshSessions(p)
          \/ DeriveLock(p)
          \/ DeriveLoad(p)

Spec == Init /\ [][Next]_vars


(***************************************************************************)
(* Vocabulary of the properties.                                           *)
(***************************************************************************)
IsCreate(p) == call[p].op = "CreateSession"
IsDelete(p) == call[p].op = "DeleteSession"
Returned(p) == pc[p] = "idle" /\ call[p].op # "none"

Ops(t) == [ i \in 1..Len(t) |-> t[i].op ]
Count(t, op) == Cardinality({ i \in 1..Len(t) : t[i].op = op })

\* the entries the step appended to the caller's trace (none when the step
\* is not the caller's, or starts a new call)
NewEntries(p) ==
    IF Len(trace'[p]) > Len(trace[p]) /\ SubSeq(trace'[p], 1, Len(trace[p])) = trace[p]
    THEN SubSeq(trace'[p], Len(trace[p]) + 1, Len(trace'[p]))
    ELSE <<>>

\* the step reads or writes the persisted store on behalf of caller q
AccessesStore(q) ==
    \E i \in 1..Len(NewEntries(q)) :
        NewEntries(q)[i].op \in {"store:load", "store:save"}

\* caller p is inside a mutating call, between its first read of the store
\* and the completion of its final store write
InMutation(p) ==
    \/ /\ IsCreate(p)
       /\ pc[p] \in {"IsValidRepository", "CreateWorktree", "createClaudeSettings",
                     "TmuxCreateSession", "addCoreSession", "addLoad", "addSave"}
    \/ /\ IsDelete(p)
       /\ pc[p] \in {"cleanupKill", "cleanupRemoveWorktree", "cleanupRemoveState",
                     "delSave"}

(***************************************************************************)
(* C1: in every reachable state, under any interleaving of concurrent      *)
(* CreateSession and DeleteSession calls, no two records of the persisted  *)
(* store have the same name.                                               *)
(***************************************************************************)
C1_UniqueNames ==
    \A i, j \in 1..Len(StoreRecords) :
        i # j => StoreRecords[i].name # StoreRecords[j].name

(***************************************************************************)
(* C2: a mutating call (CreateSession, DeleteSession) holds the exclusive  *)
(* store lock from its first read of the store until its final store write *)
(* completes: meanwhile no other call reads or writes the store.           *)
(***************************************************************************)
C2_ExclusiveForDuration ==
    [][ \A p, q \in Procs :
            (p # q /\ InMutation(p)) => ~AccessesStore(q) ]_vars


(***************************************************************************)
(* The trace of a CreateSession call.                                      *)
(***************************************************************************)
Started == Rec("Publish:SessionCreationStarted", TRUE)
Created == Rec("Publish:SessionCreated", TRUE)
Failed == Rec("Publish:SessionCreationFailed", TRUE)

ProvisioningOps ==
    {"git:IsValidRepository", "git:CreateWorktree", "createClaudeSettings",
     "tmux:CreateSession"}

ProvisioningPcs ==
    {"IsValidRepository", "CreateWorktree", "createClaudeSettings",
     "TmuxCreateSession", "rollbackWorktree"}

CleanupPcs == {"cleanupKill", "cleanupRemoveWorktree", "cleanupRemoveState"}

\* one of the four provisioning calls of the trace failed
ProvisioningFailedIn(t) ==
    \E i \in 1..Len(t) : t[i].op \in ProvisioningOps /\ ~t[i].ok

\* the trace starts with the event, the duplicate check and the four
\* provisioning calls, all successful, in the order of the specification
ProvisionedInOrder(t) ==
    /\ Len(t) >= 6
    /\ SubSeq(t, 1, 6) =
         << Started, Rec("store:load", TRUE), Rec("git:IsValidRepository", TRUE),
            Rec("git:CreateWorktree", TRUE), Rec("createClaudeSettings", TRUE),
            Rec("tmux:CreateSession", TRUE) >>

\* addCoreSession failed: its load (the 7th entry) or its save
AppendFailedIn(t) ==
    \/ Len(t) >= 7 /\ t[7] = Rec("store:load", FALSE)
    \/ \E i \in 1..Len(t) : t[i] = Rec("store:save", FALSE)

\* the last-but-one entry of the caller's trace after the step
PenultimateAfter(p) == trace'[p][Len(trace'[p]) - 1]

(***************************************************************************)
(* C3: if a provisioning step of CreateSession fails (repository           *)
(* validation, worktree creation, assistant-config write, tmux start),     *)
(* the call returns an error, adds no record to the store, and has torn    *)
(* down what it had created (where the teardown call itself succeeded).    *)
(***************************************************************************)
C3_Inv ==
    \A p \in Procs :
        (IsCreate(p) /\ ProvisioningFailedIn(trace[p])) =>
            /\ pc[p] \in {"rollbackWorktree", "idle"}
            /\ ~HasOp(p, "store:save")
            /\ ~HasOk(p, "tmux:CreateSession")
            /\ pc[p] = "idle" =>
                  /\ result[p] = "ProvisioningFailed"
                  /\ Last(trace[p]) = Failed
                  /\ HasOk(p, "git:CreateWorktree") =>
                        trace[p][Len(trace[p]) - 1].op = "git:RemoveWorktree"

C3_Step ==
    \A p \in Procs :
        (IsCreate(p) /\ pc[p] \in ProvisioningPcs /\ pc'[p] # pc[p]) =>
            /\ storeFile' = storeFile
            /\ (pc[p] = "rollbackWorktree"
                  /\ PenultimateAfter(p) = Rec("git:RemoveWorktree", TRUE)) =>
                  WorktreePath(call[p].arg) \notin worktrees'

C4_Events ==
    \A p \in Procs :
        (IsCreate(p) /\ validateSessionName(call[p].arg)) =>
            LET t == trace[p]
                terminal == Count(t, Created.op) + Count(t, Failed.op)
            IN  /\ Len(t) >= 1
                /\ t[1] = Started
                /\ Count(t, Started.op) = 1
                /\ IF pc[p] = "idle"
                   THEN /\ terminal = 1
                        /\ Last(t) \in {Created, Failed}
                        /\ Last(t) = Created <=> result[p] = "ok"
                   ELSE terminal = 0
                /\ \A i \in 1..Len(t) :
                      t[i] = Created =>
                          \E j \in 1..(i - 1) : t[j] = Rec("store:save", TRUE)

C4_Witness ==
    \E p, q \in Procs :
        /\ IsCreate(p) /\ pc[p] = "idle" /\ result[p] = "ok"
        /\ Last(trace[p]) = Created
        /\ IsCreate(q) /\ pc[q] = "idle" /\ result[q] = "DuplicateName"
        /\ Last(trace[q]) = Failed

(***************************************************************************)
(* C5: a record is appended to the store only after repository             *)
(* validation, worktree creation, assistant-config write and tmux start    *)
(* all succeeded, in that order: every record that becomes visible had     *)
(* its resources created first.                                            *)
(***************************************************************************)
C5_Inv ==
    \A p \in Procs :
        ( /\ IsCreate(p)
          /\ \/ HasOp(p, "store:save")
             \/ pc[p] \in {"addCoreSession", "addLoad", "addSave", "deriveSession"} )
        => ProvisionedInOrder(trace[p])

C5_Step ==
    Len(StoreRecords') > Len(StoreRecords) =>
        \E p \in Procs :
            /\ IsCreate(p) /\ pc[p] = "addSave"
            /\ ProvisionedInOrder(trace[p])
            /\ StoreRecords' = Append(StoreRecords, core[p])

\* C5: a record is appended only after the four provisioning steps
\* succeeded in order
C5_PersistAfterProvisioning == []C5_Inv /\ [][C5_Step]_vars

C5_Witness ==
    \E p \in Procs :
        /\ IsCreate(p) /\ HasOk(p, "store:save")
        /\ NameIn(StoreRecords, call[p].arg)
        /\ WorktreePath(call[p].arg) \in worktrees
        /\ TmuxSession(call[p].arg) \in tmuxAlive

(***************************************************************************)
(* C6: CreateSession with a name that fails validation returns an error    *)
(* before any side effect: it publishes no event, calls no checker and     *)
(* leaves the store unchanged.                                             *)
(***************************************************************************)
C6_Inv ==
    \A p \in Procs :
        (IsCreate(p) /\ ~validateSessionName(call[p].arg)) =>
            /\ pc[p] = "idle"
            /\ result[p] = "InvalidName"
            /\ trace[p] = <<>>

\* the step is a call of CreateSession with an invalid name
InvalidCreateStep ==
    /\ ncalls' # ncalls
    /\ \E p \in Procs :
          /\ pc[p] = "idle"
          /\ \A q \in Procs : q < p => pc[q] # "idle"
          /\ call'[p].op = "CreateSession"
          /\ ~validateSessionName(call'[p].arg)

C6_Step ==
    InvalidCreateStep =>
        /\ storeFile' = storeFile
        /\ UNCHANGED extVars
        /\ mu' = mu
        /\ pc' = pc

\* C6: an invalid name is refused with no event, no checker call and no
\* change of the store
C6_InvalidNameNoSideEffect == []C6_Inv /\ [][C6_Step]_vars

C6_Witness ==
    \E p \in Procs :
        /\ IsCreate(p) /\ result[p] = "InvalidName"
        /\ isNumericOnly(call[p].arg)

(***************************************************************************)
(* C7: CreateSession(name), when its duplicate check finds a record of     *)
(* that name in the persisted store, returns a duplicate-name error,       *)
(* provisions nothing and leaves the store unchanged.                      *)
(***************************************************************************)
C7_Inv ==
    \A p \in Procs :
        (IsCreate(p) /\ result[p] = "DuplicateName") =>
            trace[p] = << Started, Rec("store:load", TRUE), Failed >>

C7_Step ==
    \A p \in Procs :
        ( /\ pc[p] = "checkDuplicateName"
          /\ pc'[p] # pc[p]
          /\ NameIn(StoreRecords, core[p].name) )
        => /\ pc'[p] = "idle"
           /\ result'[p] = "DuplicateName"
           /\ storeFile' = storeFile
           /\ UNCHANGED extVars

\* C7: a name found in the persisted store is refused, nothing provisioned,
\* the store unchanged
C7_DuplicateNameRejected == []C7_Inv /\ [][C7_Step]_vars

C7_Witness ==
    \E p \in Procs :
        /\ IsCreate(p) /\ result[p] = "DuplicateName"
        /\ NameIn(StoreRecords, call[p].arg)
        /\ Len(StoreRecords) = 1

(***************************************************************************)
(* C8: if appending the record fails after provisioning succeeded,         *)
(* CreateSession tears down the tmux session, the worktree and the         *)
(* session-state file, publishes "creation failed", returns an error and   *)
(* does not change the store.                                              *)
(***************************************************************************)
C8_Inv ==
    \A p \in Procs :
        (IsCreate(p) /\ AppendFailedIn(trace[p])) =>
            /\ ProvisionedInOrder(trace[p])
            /\ ~HasOk(p, "store:save")
            /\ pc[p] \in CleanupPcs \cup {"idle"}
            /\ pc[p] = "idle" =>
                  /\ result[p] = "PersistenceFailed"
                  /\ Len(trace[p]) >= 4
                  /\ SubSeq(Ops(trace[p]), Len(trace[p]) - 3, Len(trace[p])) =
                       << "tmux:KillSession", "git:RemoveWorktree",
                          "RemoveSessionState", Failed.op >>

C8_Step ==
    \A p \in Procs :
        (IsCreate(p) /\ pc'[p] # pc[p]) =>
            /\ (pc[p] \in {"addLoad", "addSave"} /\ pc'[p] = "cleanupKill") =>
                  storeFile' = storeFile
            /\ pc[p] \in CleanupPcs => storeFile' = storeFile
            /\ (pc[p] = "cleanupKill" /\ Last(trace'[p]).ok) =>
                  TmuxSession(call[p].arg) \notin tmuxAlive'
            /\ (pc[p] = "cleanupRemoveWorktree" /\ Last(trace'[p]).ok) =>
                  WorktreePath(call[p].arg) \notin worktrees'
            /\ (pc[p] = "cleanupRemoveState" /\ PenultimateAfter(p).ok) =>
                  stateFiles'[core[p].id] = NoStateFile

\* C8: a failed append is followed by the three teardown calls and the
\* "creation failed" event, the store unchanged
C8_RollbackOnPersistenceFailure == []C8_Inv /\ [][C8_Step]_vars

C8_Witness ==
    \E p \in Procs :
        /\ IsCreate(p) /\ pc[p] = "idle" /\ result[p] = "PersistenceFailed"
        /\ HasOp(p, "store:save")
        /\ \A i \in 1..Len(trace[p]) :
              trace[p][i].op \in {"tmux:KillSession", "git:RemoveWorktree",
                                  "RemoveSessionState"} => trace[p][i].ok
        /\ TmuxSession(call[p].arg) \notin tmuxAlive
        /\ WorktreePath(call[p].arg) \notin worktrees

(***************************************************************************)
(* C9: a successful DeleteSession(id) removes exactly the record with that *)
(* id from the store, leaves every other record unchanged and in order,    *)
(* publishes "deleted", and afterwards a lookup of the deleted session by  *)
(* its name fails with not-found.                                          *)
(***************************************************************************)
RemoveAt(s, i) == SubSeq(s, 1, i - 1) \o SubSeq(s, i + 1, Len(s))

C9_Step ==
    \A p \in Procs :
        (IsDelete(p) /\ pc[p] = "delSave" /\ result'[p] = "ok") =>
            /\ \E i \in 1..Len(StoreRecords) :
                  /\ StoreRecords[i].id = call[p].arg
                  /\ StoreRecords' = RemoveAt(StoreRecords, i)
            /\ Last(trace'[p]) = Rec("Publish:SessionDeleted", TRUE)
            /\ LET name == core[p].name
               IN  FindSessionByName(DeriveSessions(StoreRecords)', name) = "NotFound"

\* C9: a successful DeleteSession removes exactly the record of that id,
\* publishes "deleted", and the name is then not found
C9_DeleteRemovesExactlyOne == [][C9_Step]_vars

(***************************************************************************)
(* C10: DeleteSession(id), called when no record of the store has that id  *)
(* (the store file being missing, empty, or a list without that id),       *)
(* publishes "deletion failed", returns not-found, makes no teardown call  *)
(* on any checker and leaves the persisted store unchanged.                *)
(***************************************************************************)
C10_Step ==
    \A p \in Procs :
        ( /\ pc[p] = "delLoad"
          /\ pc'[p] # pc[p]
          /\ storeFile.kind # "corrupt"
          /\ ~IdIn(StoreRecords, call[p].arg) )
        => /\ pc'[p] = "idle"
           /\ result'[p] = "NotFound"
           /\ NewEntries(p) = << Rec("store:load", TRUE),
                                 Rec("Publish:SessionDeletionFailed", TRUE) >>
           /\ storeFile' = storeFile
           /\ UNCHANGED extVars

\* C10: every DeleteSession of an id that no record has ends as C10_Step says
C10_DeleteNotFound == [][C10_Step]_vars

(***************************************************************************)
(* The trace of a DeleteSession call.                                      *)
(***************************************************************************)
DeletionFailed == Rec("Publish:SessionDeletionFailed", TRUE)
Deleted == Rec("Publish:SessionDeleted", TRUE)

TeardownOps == << "tmux:KillSession", "git:RemoveWorktree", "RemoveSessionState" >>

\* the caller's step ends a saveCoreSessions that succeeded (ok) or failed
SaveEnded(p, ok) ==
    /\ pc[p] \in {"addSave", "delSave"}
    /\ pc'[p] # pc[p]
    /\ \E i \in 1..Len(NewEntries(p)) : NewEntries(p)[i] = Rec("store:save", ok)

\* a teardown call of DeleteSession that succeeded has removed its resource
DeleteTeardownStep(p) ==
    (IsDelete(p) /\ pc[p] \in CleanupPcs /\ pc'[p] # pc[p] /\ Last(trace'[p]).ok) =>
        /\ pc[p] = "cleanupKill" => TmuxSession(core[p].name) \notin tmuxAlive'
        /\ pc[p] = "cleanupRemoveWorktree" =>
              WorktreePath(core[p].name) \notin worktrees'
        /\ pc[p] = "cleanupRemoveState" => stateFiles'[core[p].id] = NoStateFile

(***************************************************************************)
(* C11: if saving the remaining records fails in DeleteSession, the call   *)
(* publishes "deletion failed" and returns the error; the matched record   *)
(* is still in the store, although the three teardown calls have already   *)
(* been made on its resources.                                             *)
(***************************************************************************)
C11_Inv ==
    \A p \in Procs :
        (IsDelete(p) /\ result[p] = "PersistenceFailed") =>
            /\ Ops(trace[p]) = << "store:load" >> \o TeardownOps
                                 \o << "store:save", DeletionFailed.op >>
            /\ trace[p][5] = Rec("store:save", FALSE)

C11_Step ==
    \A p \in Procs :
        /\ DeleteTeardownStep(p)
        /\ (IsDelete(p) /\ SaveEnded(p, FALSE)) =>
              /\ result'[p] = "PersistenceFailed"
              /\ Last(trace'[p]) = DeletionFailed
              /\ storeFile' = storeFile
              /\ \E i \in 1..Len(StoreRecords') : StoreRecords'[i] = core[p]

\* C11: a failed save in DeleteSession ends in "deletion failed" and an
\* error, the record kept, its resources already torn down
C11_DeletePersistenceFailure == []C11_Inv /\ [][C11_Step]_vars

C11_Witness ==
    \E p \in Procs :
        /\ IsDelete(p) /\ result[p] = "PersistenceFailed"
        /\ IdIn(StoreRecords, call[p].arg)
        /\ \A i \in 2..4 : trace[p][i].ok
        /\ \A i \in 1..Len(StoreRecords) :
              StoreRecords[i].id = call[p].arg =>
                  /\ StoreRecords[i].tmux_session \notin tmuxAlive
                  /\ StoreRecords[i].worktree_path \notin worktrees

(***************************************************************************)
(* C12: a failing teardown call of DeleteSession (kill the tmux session,   *)
(* remove the worktree, remove the session-state file) stops neither the   *)
(* teardown calls after it nor the removal of the record: when the save    *)
(* succeeds DeleteSession removes the record, returns success and          *)
(* publishes "deleted".                                                    *)
(***************************************************************************)
C12_Inv ==
    \A p \in Procs :
        IsDelete(p) =>
            /\ pc[p] = "delSave" => Ops(trace[p]) = << "store:load" >> \o TeardownOps
            /\ result[p] = "ok" =>
                  /\ Ops(trace[p]) = << "store:load" >> \o TeardownOps
                                       \o << "store:save", Deleted.op >>
                  /\ trace[p][5] = Rec("store:save", TRUE)

C12_Step ==
    \A p \in Procs :
        IsDelete(p) =>
            /\ (pc[p] = "cleanupKill" /\ pc'[p] # pc[p]) =>
                  pc'[p] = "cleanupRemoveWorktree"
            /\ (pc[p] = "cleanupRemoveWorktree" /\ pc'[p] # pc[p]) =>
                  pc'[p] = "cleanupRemoveState"
            /\ (pc[p] = "cleanupRemoveState" /\ pc'[p] # pc[p]) =>
                  pc'[p] = "delSave"
            /\ SaveEnded(p, TRUE) =>
                  /\ result'[p] = "ok"
                  /\ Last(trace'[p]) = Deleted
                  /\ ~IdIn(StoreRecords', call[p].arg)

\* C12: teardown failures do not keep DeleteSession from removing the record
C12_TeardownBestEffort == []C12_Inv /\ [][C12_Step]_vars

C12_Witness ==
    \E p \in Procs :
        /\ IsDelete(p) /\ result[p] = "ok"
        /\ \A i \in 2..4 : ~trace[p][i].ok
        /\ ~IdIn(StoreRecords, call[p].arg)

(***************************************************************************)
(* C13: when the store file holds malformed content, DeriveFreshSessions   *)
(* returns an error and a nil list: never an empty list, never a partial   *)
(* one.                                                                    *)
(***************************************************************************)
IsDerive(p) == call[p].op = "DeriveFreshSessions"

C13_Inv ==
    \A p \in Procs :
        (IsDerive(p) /\ result[p] = "LoadError") => ret[p] = NilSessions

C13_Step ==
    \A p \in Procs :
        (pc[p] = "deriveLoad" /\ pc'[p] # pc[p] /\ storeFile.kind = "corrupt") =>
            /\ result'[p] = "LoadError"
            /\ ret'[p] = NilSessions

\* C13: DeriveFreshSessions on a malformed store file returns an error and
\* no list
C13_CorruptStoreIsAnError == []C13_Inv /\ [][C13_Step]_vars

C13_Witness ==
    \E p \in Procs :
        /\ IsDerive(p) /\ pc[p] = "idle" /\ result[p] = "LoadError"
        /\ storeFile = CorruptFile
        /\ ret[p].nil

(***************************************************************************)
(* C14: DeriveFreshSessions returns an empty list and no error both when   *)
(* the store file is missing and when it exists with zero bytes.           *)
(***************************************************************************)
C14_Step ==
    \A p \in Procs :
        ( /\ pc[p] = "deriveLoad" /\ pc'[p] # pc[p]
          /\ storeFile.kind \in {"missing", "empty"} )
        => /\ result'[p] = "ok"
           /\ ret'[p] = SessionList(<<>>)

\* C14: a derivation on a missing or zero-byte store file returns the empty
\* list and no error
C14_MissingOrEmptyIsEmptyList == [][C14_Step]_vars

(***************************************************************************)
(* C15: DeriveFreshSessions is serialized against mutation: while a caller *)
(* is inside a derivation (holding the read lock) no caller is inside      *)
(* DeleteSession's load-teardown-save section or inside addCoreSession's   *)
(* load-append-save, and the derivation itself changes nothing; two        *)
(* derivations may be in progress together.                                *)
(***************************************************************************)
Deriving(p) == IsDerive(p) /\ pc[p] = "deriveLoad"

Mutating(q) ==
    \/ IsDelete(q) /\ pc[q] \in {"delLoad", "delSave"} \cup CleanupPcs
    \/ IsCreate(q) /\ pc[q] \in {"addLoad", "addSave"}

C15_DerivationSerialized ==
    \A p, q \in Procs :
        /\ ~(Deriving(p) /\ Mutating(q))
        /\ Deriving(p) => (p \in mu.readers /\ mu.writer = 0)
        /\ Mutating(q) => (mu.writer = q /\ mu.readers = {})

C15_Witness ==
    \E p, q \in Procs : p # q /\ Deriving(p) /\ Deriving(q)

(***************************************************************************)
(* C16: no two CoreSession records created by the Manager have the same    *)
(* id, whether the CreateSession calls are sequential or concurrent.       *)
(***************************************************************************)
C16_UniqueIds ==
    \A i, j \in 1..Len(StoreRecords) :
        i # j => StoreRecords[i].id # StoreRecords[j].id

(***************************************************************************)
(* The store file, step by step: Manager.saveCoreSessions as its system    *)
(* calls (MkdirAll, the open, write and close of os.WriteFile on           *)
(* sessions.json.tmp, Rename), Manager.loadCoreSessions, and               *)
(* Manager.addCoreSession.  The Manager calls them with m.mu held, so      *)
(* there is one caller; cores is the list it passed to saveCoreSessions,   *)
(* ret the list loadCoreSessions returned, trace the saves and loads made  *)
(* so far.                                                                 *)
(***************************************************************************)
MaxRecords == 2

StoreCaller == 1

\* the records the lists are made of: CreateSession's records for "a" and
\* for "a" followed by the byte 0xFF, names validateSessionName accepts
StoreCores ==
    { NewCore(x[1], x[2]) :
        x \in { y \in { << <<97>>, 0 >>, << <<97, -255>>, MaxClock >> } :
                  validateSessionName(y[1]) } }

RECURSIVE ListsOf(_, _)
\* the lists of at most n records of S
ListsOf(S, n) ==
    IF n = 0 THEN { <<>> }
    ELSE ListsOf(S, n - 1) \cup
         { Append(l, c) : l \in { m \in ListsOf(S, n - 1) : Len(m) = n - 1 },
                          c \in S }

ListsUpTo(n) == ListsOf(StoreCores, n)

StoreFiles ==
    {MissingFile, EmptyFile, CorruptFile} \cup
    { JsonFile(l) : l \in ListsUpTo(MaxRecords) }

InitStore ==
    /\ impl = "mock"
    /\ now = 0
    /\ ncalls = 0
    /\ storeFile \in StoreFiles
    /\ tempFile \in {MissingFile, PartialFile}
    /\ tmuxAlive = {}
    /\ worktrees = {}
    /\ branches = {}
    /\ settings = {}
    /\ stateFiles = [id \in Ids |-> NoStateFile]
    /\ responses = NoResponses
    /\ mu = Unlocked
    /\ pc = [p \in Procs |-> "idle"]
    /\ call = [p \in Procs |-> [op |-> "none", arg |-> <<>>]]
    /\ core = [p \in Procs |-> NoCore]
    /\ cores = [p \in Procs |-> <<>>]
    /\ result = [p \in Procs |-> "none"]
    /\ ret = [p \in Procs |-> NilSessions]
    /\ trace = [p \in Procs |-> <<>>]
    /\ ManagerOnly

\* what the store calls leave alone
StoreFrame == UNCHANGED << otherVars, impl, responses, now, extVars, mu, core >>

StoreCall(op) ==
    /\ pc[StoreCaller] = "idle"
    /\ ncalls < MaxCalls
    /\ ncalls' = ncalls + 1
    /\ call' = [call EXCEPT ![StoreCaller] = [op |-> op, arg |-> <<>>]]

StoreGoto(where) ==
    /\ pc' = [pc EXCEPT ![StoreCaller] = where]
    /\ result' = [result EXCEPT ![StoreCaller] = "pending"]
    /\ UNCHANGED << ncalls, call, cores, ret, trace >>

\* saveCoreSessions returns: nil, or the error of the step that failed
StoreReturn(ok) ==
    /\ pc' = [pc EXCEPT ![StoreCaller] = "idle"]
    /\ result' = [result EXCEPT ![StoreCaller] =
                     IF ok THEN "ok" ELSE "PersistenceFailed"]
    /\ Log(StoreCaller, << Rec("store:save", ok) >>)
    /\ UNCHANGED << ncalls, call, cores, ret >>

\* saveCoreSessions(sessions) is called
SaveCoreSessions(sessions) ==
    /\ StoreCall("saveCoreSessions")
    /\ cores' = [cores EXCEPT ![StoreCaller] = sessions]
    /\ pc' = [pc EXCEPT ![StoreCaller] = "saveMkdirAll"]
    /\ result' = [result EXCEPT ![StoreCaller] = "pending"]
    /\ UNCHANGED << storeFile, tempFile, ret, trace >>
    /\ StoreFrame

\* addCoreSession(c): loadCoreSessions, append, saveCoreSessions
AddCoreSession(c) ==
    /\ StoreCall("addCoreSession")
    /\ LET r == loadCoreSessions(storeFile) IN
       /\ Len(r.sessions) < MaxRecords
       /\ Log(StoreCaller, << Rec("store:load", ~r.err) >>)
       /\ IF r.err
          THEN /\ pc' = pc
               /\ result' = [result EXCEPT ![StoreCaller] = "LoadError"]
               /\ cores' = cores
          ELSE /\ pc' = [pc EXCEPT ![StoreCaller] = "saveMkdirAll"]
               /\ result' = [result EXCEPT ![StoreCaller] = "pending"]
               /\ cores' = [cores EXCEPT ![StoreCaller] = Append(r.sessions, c)]
    /\ UNCHANGED << storeFile, tempFile, ret >>
    /\ StoreFrame

\* os.MkdirAll(DataDir); json.MarshalIndent cannot fail on these types
SaveMkdirAll ==
    /\ pc[StoreCaller] = "saveMkdirAll"
    /\ \E ok \in BOOLEAN :
          IF ok THEN StoreGoto("saveOpenTemp") ELSE StoreReturn(FALSE)
    /\ UNCHANGED << storeFile, tempFile >>
    /\ StoreFrame

\* os.WriteFile truncating the store file itself
SaveOpenTemp_InPlace ==
    /\ pc[StoreCaller] = "saveOpenTemp"
    /\ \E ok \in BOOLEAN :
          IF ok
          THEN storeFile' = EmptyFile /\ StoreGoto("saveWriteTemp")
          ELSE storeFile' = storeFile /\ StoreReturn(FALSE)
    /\ UNCHANGED tempFile
    /\ StoreFrame

\* os.WriteFile(tempFile, ...): the open with O_CREATE|O_TRUNC
SaveOpenTemp ==
    /\ pc[StoreCaller] = "saveOpenTemp"
    /\ \E ok \in BOOLEAN :
          IF ok
          THEN tempFile' = EmptyFile /\ StoreGoto("saveWriteTemp")
          ELSE tempFile' = tempFile /\ StoreReturn(FALSE)
    /\ UNCHANGED storeFile
    /\ StoreFrame

\* os.WriteFile(tempFile, data, 0644): the write and the close; a failure
\* leaves the file empty or with a prefix of the document
SaveWriteTemp ==
    /\ pc[StoreCaller] = "saveWriteTemp"
    /\ \/ /\ tempFile' = JsonFile(cores[StoreCaller])
          /\ StoreGoto("saveRename")
       \/ /\ tempFile' \in {EmptyFile, PartialFile}
          /\ StoreReturn(FALSE)
    /\ UNCHANGED storeFile
    /\ StoreFrame

\* os.Rename(tempFile, dataFile), and os.Remove(tempFile) when it fails
SaveRename ==
    /\ pc[StoreCaller] = "saveRename"
    /\ \/ /\ storeFile' = tempFile
          /\ tempFile' = MissingFile
          /\ StoreReturn(TRUE)
       \/ /\ storeFile' = storeFile
          /\ tempFile' \in {MissingFile, tempFile}
          /\ StoreReturn(FALSE)
    /\ StoreFrame

\* loadCoreSessions()
LoadCoreSessions ==
    /\ StoreCall("loadCoreSessions")
    /\ LET r == loadCoreSessions(storeFile) IN
       /\ Log(StoreCaller, << Rec("store:load", ~r.err) >>)
       /\ result' = [result EXCEPT ![StoreCaller] =
                        IF r.err THEN "LoadError" ELSE "ok"]
       /\ ret' = [ret EXCEPT ![StoreCaller] =
                     IF r.err THEN NilSessions ELSE SessionList(r.sessions)]
    /\ UNCHANGED << storeFile, tempFile, pc, cores >>
    /\ StoreFrame

NextStore ==
    \/ \E sessions \in ListsUpTo(MaxRecords) : SaveCoreSessions(sessions)
    \/ \E c \in StoreCores : AddCoreSession(c)
    \/ SaveMkdirAll
    \/ SaveOpenTemp
    \/ SaveWriteTemp
    \/ SaveRename
    \/ LoadCoreSessions

SpecStore == InitStore /\ [][NextStore]_vars

\* the caller is inside saveCoreSessions
Saving == pc[StoreCaller] \in {"saveMkdirAll", "saveOpenTemp", "saveWriteTemp",
                               "saveRename"}

\* the step returns from saveCoreSessions with success (ok) or an error
SaveReturns(ok) ==
    /\ Saving
    /\ pc'[StoreCaller] = "idle"
    /\ Last(trace'[StoreCaller]) = Rec("store:save", ok)

(***************************************************************************)
(* C17: at every instant of a store write the store file holds either the  *)
(* complete previous list or the complete new one, never a partial or      *)
(* mixed one, and a write that fails at any step leaves the previous       *)
(* contents in place.                                                      *)
(***************************************************************************)
C17_Inv == storeFile \in StoreFiles

C17_Step ==
    /\ \/ storeFile' = storeFile
       \/ /\ SaveReturns(TRUE)
          /\ storeFile' = JsonFile(cores[StoreCaller])
    /\ SaveReturns(FALSE) => storeFile' = storeFile
    /\ SaveReturns(TRUE) => storeFile' = JsonFile(cores[StoreCaller])

\* C17: the store file changes only in the rename, from the whole old
\* document to the whole new one
C17_AtomicWrite == []C17_Inv /\ [][C17_Step]_vars

C17_Witness ==
    /\ call[StoreCaller].op = "saveCoreSessions"
    /\ result[StoreCaller] = "PersistenceFailed"
    /\ tempFile = PartialFile
    /\ storeFile.kind = "json"
    /\ Len(StoreRecords) = 2
    /\ StoreRecords # cores[StoreCaller]

(***************************************************************************)
(* C18: saving a list of N CoreSessions (N >= 0) and then loading the      *)
(* store yields exactly those N records, field for field, in the same      *)
(* order; a record addCoreSession appends comes after the records already  *)
(* there, so records load in the order of their creation.                  *)
(***************************************************************************)
C18_Inv ==
    LET t == trace[StoreCaller] IN
    ( /\ call[StoreCaller].op = "loadCoreSessions"
      /\ Len(t) >= 2
      /\ t[Len(t) - 1] = Rec("store:save", TRUE) )
    => /\ result[StoreCaller] = "ok"
       /\ ret[StoreCaller] = SessionList(cores[StoreCaller])

C18_Step ==
    SaveReturns(TRUE) =>
        /\ loadCoreSessions(storeFile)' =
              [ err |-> FALSE, sessions |-> cores[StoreCaller] ]
        /\ call[StoreCaller].op = "addCoreSession" =>
              /\ Len(StoreRecords') = Len(StoreRecords) + 1
              /\ SubSeq(StoreRecords', 1, Len(StoreRecords)) = StoreRecords

\* C18: what saveCoreSessions wrote is what loadCoreSessions reads, in order
C18_RoundTrip == []C18_Inv /\ [][C18_Step]_vars

(***************************************************************************)
(* Derivation over a fixed world: the store, the tmux sessions, the        *)
(* session-state files and the checkers' answers are drawn at the start    *)
(* and only DeriveFreshSessions is called.                                 *)
(***************************************************************************)
\* what a session-state file can hold
StateFileContents ==
    { NoStateFile, BadStateFile, SessionStateFile("working", ZeroTime),
      SessionStateFile("waiting_for_input", MaxClock),
      SessionStateFile("", MaxClock) }

\* what ClaudeChecker.GetStatus can answer
ClaudeResponses ==
    { UnknownStatus,
      [ state |-> "idle", availability |-> "current", last_message |-> MaxClock ] }

\* the records of the store, of names the checkers' answers are drawn for
DeriveCores == { NewCore(<<97>>, 0), NewCore(<<98>>, MaxClock) }

DeriveStores ==
    {MissingFile, EmptyFile, CorruptFile} \cup
    { JsonFile(l) : l \in ListsOf(DeriveCores, MaxRecords) }

InitDerive ==
    /\ impl = "mock"
    /\ now = 0
    /\ ncalls = 0
    /\ storeFile \in DeriveStores
    /\ tempFile = MissingFile
    /\ responses \in [ claude : [Paths -> ClaudeResponses],
                        git : [Paths -> {TRUE}] ]
    /\ tmuxAlive \in SUBSET { TmuxSession(<<97>>) }
    /\ worktrees = {}
    /\ branches = {}
    /\ settings = {}
    /\ stateFiles \in [Ids -> StateFileContents]
    /\ mu = Unlocked
    /\ pc = [p \in Procs |-> "idle"]
    /\ call = [p \in Procs |-> [op |-> "none", arg |-> <<>>]]
    /\ core = [p \in Procs |-> NoCore]
    /\ cores = [p \in Procs |-> <<>>]
    /\ result = [p \in Procs |-> "none"]
    /\ ret = [p \in Procs |-> NilSessions]
    /\ trace = [p \in Procs |-> <<>>]
    /\ ManagerOnly

NextDerive ==
    \E p \in Procs :
        \/ DeriveFreshSessions(p)
        \/ DeriveLock(p)
        \/ DeriveLoad(p)

SpecDerive == InitDerive /\ [][NextDerive]_vars

\* what a derivation of the present world returns
DerivedNow ==
    LET r == loadCoreSessions(storeFile)
    IN  IF r.err THEN NilSessions ELSE SessionList(DeriveSessions(r.sessions))

Derived(p) == IsDerive(p) /\ Returned(p)

(***************************************************************************)
(* C19: with the store, the session-state files and the checkers' answers  *)
(* fixed, any two DeriveFreshSessions calls return the same result, and a  *)
(* derivation changes neither the store nor any external resource.         *)
(***************************************************************************)
C19_Inv ==
    \A p, q \in Procs :
        Derived(p) =>
            /\ ret[p] = DerivedNow
            /\ Derived(q) => (ret[p] = ret[q] /\ result[p] = result[q])

C19_Step == UNCHANGED << storeFile, tempFile, extVars, responses >>

C20_StatusResolution ==
    \A p \in Procs :
        (Derived(p) /\ result[p] = "ok") =>
            \A i \in 1..Len(ret[p].list) :
                LET session == ret[p].list[i]
                    file == stateFiles[session.core.id]
                IN  IF file.kind = "json"
                    THEN session.claude_status = GetClaudeStatusFromState(file)
                    ELSE session.claude_status =
                             responses.claude[session.core.worktree_path]

C20_Witness ==
    \E p \in Procs :
        /\ Derived(p) /\ result[p] = "ok" /\ Len(ret[p].list) = 2
        /\ responses.claude[ret[p].list[1].core.worktree_path] # UnknownStatus
        /\ responses.claude[ret[p].list[2].core.worktree_path] # UnknownStatus
        /\ stateFiles[ret[p].list[1].core.id].kind = "json"
        /\ ret[p].list[1].claude_status.state = "waiting"
        /\ stateFiles[ret[p].list[2].core.id].kind = "corrupt"
        /\ ret[p].list[2].claude_status =
              responses.claude[ret[p].list[2].core.worktree_path]

(***************************************************************************)
(* Manager.FindStaleSessions, over a fixed world: the store and the tmux   *)
(* sessions are drawn at the start and only FindStaleSessions is called.   *)
(***************************************************************************)
\* the loop of FindStaleSessions keeping every session
StaleSessions_All(sessions) == sessions

\* the loop of FindStaleSessions: the sessions whose IsAlive is false, in
\* the order of the list; a nil slice when there is none
StaleSessions(sessions) == SelectSeq(sessions, LAMBDA s : ~s.is_alive)

FindStaleSessions(p) ==
    /\ Begin(p, "FindStaleSessions", <<>>)
    /\ Continue(p, "staleLock")
    /\ trace' = [trace EXCEPT ![p] = <<>>]
    /\ UNCHANGED << otherVars, impl, tempFile, responses, now, storeFile, extVars, mu >>

\* DeriveFreshSessions: m.mu.RLock()
StaleLock(p) ==
    /\ pc[p] = "staleLock"
    /\ CanRLock
    /\ mu' = [mu EXCEPT !.readers = @ \cup {p}]
    /\ Continue(p, "staleLoad")
    /\ UNCHANGED << otherVars, impl, tempFile, responses, now, ncalls, storeFile, extVars, call, ret, trace >>

\* DeriveFreshSessions: loadCoreSessions, deriveSession for each record, the
\* deferred RUnlock; then the loop over the derived sessions
StaleLoad(p) ==
    /\ pc[p] = "staleLoad"
    /\ LET r == loadCoreSessions(storeFile)
           stale == StaleSessions(DeriveSessions(r.sessions))
       IN
       /\ Log(p, << Rec("store:load", ~r.err) >>)
       /\ ret' = [ret EXCEPT ![p] = IF r.err \/ stale = <<>> THEN NilSessions
                                   ELSE SessionList(stale)]
       /\ Return(p, IF r.err THEN "LoadError" ELSE "ok")
    /\ mu' = [mu EXCEPT !.readers = @ \ {p}]
    /\ UNCHANGED << otherVars, impl, tempFile, responses, now, ncalls, storeFile, extVars, call >>

InitStale ==
    /\ impl = "mock"
    /\ now = 0
    /\ ncalls = 0
    /\ storeFile \in DeriveStores
    /\ tempFile = MissingFile
    /\ responses = NoResponses
    /\ tmuxAlive \in SUBSET { TmuxSession(c.name) : c \in DeriveCores }
    /\ worktrees = {}
    /\ branches = {}
    /\ settings = {}
    /\ stateFiles = [id \in Ids |-> NoStateFile]
    /\ mu = Unlocked
    /\ pc = [p \in Procs |-> "idle"]
    /\ call = [p \in Procs |-> [op |-> "none", arg |-> <<>>]]
    /\ core = [p \in Procs |-> NoCore]
    /\ cores = [p \in Procs |-> <<>>]
    /\ result = [p \in Procs |-> "none"]
    /\ ret = [p \in Procs |-> NilSessions]
    /\ trace = [p \in Procs |-> <<>>]
    /\ ManagerOnly

NextStale ==
    \E p \in Procs :
        \/ FindStaleSessions(p)
        \/ StaleLock(p)
        \/ StaleLoad(p)

SpecStale == InitStale /\ [][NextStale]_vars

\* the positions of the store's records whose tmux session is not alive
DeadAt == { i \in 1..Len(StoreRecords) :
              StoreRecords[i].tmux_session \notin tmuxAlive }

\* the k-th of them
NthDead(k) == CHOOSE i \in DeadAt : Cardinality({ j \in DeadAt : j < i }) = k - 1

FoundStale(p) == call[p].op = "FindStaleSessions" /\ Returned(p)

(***************************************************************************)
(* C21: FindStaleSessions returns exactly the sessions of the store whose  *)
(* tmux session is not alive, each once and in the order of the store, no  *)
(* alive session and no session that is not in the store; when the store   *)
(* cannot be loaded it returns an error and no list.                       *)
(***************************************************************************)
C21_FindStaleSessions ==
    \A p \in Procs :
        FoundStale(p) =>
            IF loadCoreSessions(storeFile).err
            THEN result[p] = "LoadError" /\ ret[p] = NilSessions
            ELSE /\ result[p] = "ok"
                 /\ Len(ret[p].list) = Cardinality(DeadAt)
                 /\ \A k \in 1..Len(ret[p].list) :
                       /\ ret[p].list[k].core = StoreRecords[NthDead(k)]
                       /\ ~ret[p].list[k].is_alive

C21_Witness ==
    \E p \in Procs :
        /\ FoundStale(p) /\ result[p] = "ok"
        /\ Len(StoreRecords) = 2
        /\ StoreRecords[1].tmux_session \in tmuxAlive
        /\ StoreRecords[2].tmux_session \notin tmuxAlive
        /\ Len(ret[p].list) = 1
        /\ ret[p].list[1].core = StoreRecords[2]

(***************************************************************************)
(* The event bus: events.Bus.  The callers are the processes of Procs;     *)
(* the events published are numbered in the order of the Publish calls,    *)
(* and 0 stands for an event published before the behaviour starts.        *)
(***************************************************************************)
\* make(chan types.Event, 100)
BufferSize == 100

MaxBusCalls == 3
MaxReceives == 2

\* a Manager that is not called, on the given store file
ManagerAt(file) ==
    /\ impl = "mock"
    /\ now = 0
    /\ ncalls = 0
    /\ storeFile = file
    /\ tempFile = MissingFile
    /\ responses = NoResponses
    /\ tmuxAlive = {}
    /\ worktrees = {}
    /\ branches = {}
    /\ settings = {}
    /\ stateFiles = [id \in Ids |-> NoStateFile]
    /\ mu = Unlocked
    /\ pc = [p \in Procs |-> "idle"]
    /\ call = [p \in Procs |-> [op |-> "none", arg |-> <<>>]]
    /\ core = [p \in Procs |-> NoCore]
    /\ cores = [p \in Procs |-> <<>>]
    /\ result = [p \in Procs |-> "none"]
    /\ ret = [p \in Procs |-> NilSessions]
    /\ trace = [p \in Procs |-> <<>>]

ManagerIdle == ManagerAt(MissingFile)

Channels == 1..Len(chans)

\* the caller starts a call of the bus
BusBegin(p, op, arg) ==
    /\ bpc[p] = "idle"
    /\ bcall' = [bcall EXCEPT ![p] = [op |-> op, arg |-> arg, out |-> 0]]

BusGoto(p, where) == bpc' = [bpc EXCEPT ![p] = where]

\* Bus.Subscribe is called
Subscribe(p) ==
    /\ BusBegin(p, "Subscribe", 0)
    /\ BusGoto(p, "subLock")
    /\ nbus' = nbus + 1
    /\ UNCHANGED << subscribers, busMu, chans, bidx, received, eos, npub, nrecv >>
    /\ UNCHANGED << mgrVars, tuiVars, quietVars >>

\* b.mu.Lock()
SubLock(p) ==
    /\ bpc[p] = "subLock"
    /\ busMu = Unlocked
    /\ busMu' = [busMu EXCEPT !.writer = p]
    /\ BusGoto(p, "subAppend")
    /\ UNCHANGED << subscribers, chans, bcall, bidx, received, eos, npub, nbus, nrecv >>
    /\ UNCHANGED << mgrVars, tuiVars, quietVars >>

\* ch := make(chan types.Event, 100); the append; the deferred Unlock
SubAppend(p) ==
    /\ bpc[p] = "subAppend"
    /\ chans' = Append(chans, [buf |-> <<>>, cap |-> BufferSize, closed |-> FALSE])
    /\ subscribers' = Append(subscribers, Len(chans) + 1)
    /\ received' = Append(received, <<>>)
    /\ eos' = Append(eos, FALSE)
    /\ bcall' = [bcall EXCEPT ![p].out = Len(chans) + 1]
    /\ busMu' = Unlocked
    /\ BusGoto(p, "idle")
    /\ UNCHANGED << bidx, npub, nbus, nrecv >>
    /\ UNCHANGED << mgrVars, tuiVars, quietVars >>

\* Bus.Publish(event) is called
Publish(p) ==
    /\ BusBegin(p, "Publish", npub + 1)
    /\ BusGoto(p, "pubLock")
    /\ npub' = npub + 1
    /\ nbus' = nbus + 1
    /\ UNCHANGED << subscribers, busMu, chans, bidx, received, eos, nrecv >>
    /\ UNCHANGED << mgrVars, tuiVars, quietVars >>

\* Publish entering its loop while Close holds the lock
PubLock_NoWait(p) ==
    /\ bpc[p] = "pubLock"
    /\ busMu' = [busMu EXCEPT !.readers = @ \cup {p}]
    /\ bidx' = [bidx EXCEPT ![p] = 1]
    /\ BusGoto(p, "pubSend")
    /\ UNCHANGED << subscribers, chans, bcall, received, eos, npub, nbus, nrecv >>
    /\ UNCHANGED << mgrVars, tuiVars, quietVars >>

\* b.mu.RLock()
PubLock(p) ==
    /\ bpc[p] = "pubLock"
    /\ busMu.writer = 0
    /\ busMu' = [busMu EXCEPT !.readers = @ \cup {p}]
    /\ bidx' = [bidx EXCEPT ![p] = 1]
    /\ BusGoto(p, "pubSend")
    /\ UNCHANGED << subscribers, chans, bcall, received, eos, npub, nbus, nrecv >>
    /\ UNCHANGED << mgrVars, tuiVars, quietVars >>

\* the send of Publish without the default case: it waits for room
PubSend_Blocking(p) ==
    /\ bpc[p] = "pubSend"
    /\ bidx[p] <= Len(subscribers)
    /\ LET c == subscribers[bidx[p]] IN
       /\ ~chans[c].closed
       /\ Len(chans[c].buf) < chans[c].cap
       /\ chans' = [chans EXCEPT ![c].buf = Append(@, bcall[p].arg)]
       /\ bpc' = bpc
    /\ bidx' = [bidx EXCEPT ![p] = @ + 1]
    /\ UNCHANGED << subscribers, busMu, bcall, received, eos, npub, nbus, nrecv >>
    /\ UNCHANGED << mgrVars, tuiVars, quietVars >>

\* the send of Publish making room by dropping the oldest event
PubSend_DropOldest(p) ==
    /\ bpc[p] = "pubSend"
    /\ bidx[p] <= Len(subscribers)
    /\ LET c == subscribers[bidx[p]] IN
       /\ ~chans[c].closed
       /\ chans' = [chans EXCEPT ![c].buf =
                       IF Len(@) < chans[c].cap THEN Append(@, bcall[p].arg)
                       ELSE Append(Tail(@), bcall[p].arg)]
       /\ bpc' = bpc
    /\ bidx' = [bidx EXCEPT ![p] = @ + 1]
    /\ UNCHANGED << subscribers, busMu, bcall, received, eos, npub, nbus, nrecv >>
    /\ UNCHANGED << mgrVars, tuiVars, quietVars >>

\* one round of the loop of Publish: select { case ch <- event: default: };
\* a send on a closed channel panics
PubSend(p) ==
    /\ bpc[p] = "pubSend"
    /\ bidx[p] <= Len(subscribers)
    /\ LET c == subscribers[bidx[p]] IN
       IF chans[c].closed
       THEN /\ BusGoto(p, "panic")
            /\ chans' = chans
       ELSE /\ chans' = [chans EXCEPT ![c].buf =
                            IF Len(@) < chans[c].cap THEN Append(@, bcall[p].arg)
                            ELSE @]
            /\ bpc' = bpc
    /\ bidx' = [bidx EXCEPT ![p] = @ + 1]
    /\ UNCHANGED << subscribers, busMu, bcall, received, eos, npub, nbus, nrecv >>
    /\ UNCHANGED << mgrVars, tuiVars, quietVars >>

\* the end of the loop of Publish and the deferred RUnlock
PubDone(p) ==
    /\ bpc[p] = "pubSend"
    /\ bidx[p] > Len(subscribers)
    /\ busMu' = [busMu EXCEPT !.readers = @ \ {p}]
    /\ BusGoto(p, "idle")
    /\ UNCHANGED << subscribers, chans, bcall, bidx, received, eos, npub, nbus, nrecv >>
    /\ UNCHANGED << mgrVars, tuiVars, quietVars >>

\* Bus.Close is called
Close(p) ==
    /\ BusBegin(p, "Close", 0)
    /\ BusGoto(p, "closeLock")
    /\ nbus' = nbus + 1
    /\ UNCHANGED << subscribers, busMu, chans, bidx, received, eos, npub, nrecv >>
    /\ UNCHANGED << mgrVars, tuiVars, quietVars >>

\* b.mu.Lock()
CloseLock(p) ==
    /\ bpc[p] = "closeLock"
    /\ busMu = Unlocked
    /\ busMu' = [busMu EXCEPT !.writer = p]
    /\ bidx' = [bidx EXCEPT ![p] = 1]
    /\ BusGoto(p, "closeChan")
    /\ UNCHANGED << subscribers, chans, bcall, received, eos, npub, nbus, nrecv >>
    /\ UNCHANGED << mgrVars, tuiVars, quietVars >>

\* the loop of Close going on without closing the channel
CloseChan_NoClose(p) ==
    /\ bpc[p] = "closeChan"
    /\ bidx[p] <= Len(subscribers)
    /\ bidx' = [bidx EXCEPT ![p] = @ + 1]
    /\ UNCHANGED << subscribers, busMu, chans, bpc, bcall, received, eos, npub, nbus, nrecv >>
    /\ UNCHANGED << mgrVars, tuiVars, quietVars >>

\* one round of the loop of Close: close(ch); closing a closed channel
\* panics
CloseChan(p) ==
    /\ bpc[p] = "closeChan"
    /\ bidx[p] <= Len(subscribers)
    /\ LET c == subscribers[bidx[p]] IN
       IF chans[c].closed
       THEN /\ BusGoto(p, "panic")
            /\ chans' = chans
       ELSE /\ chans' = [chans EXCEPT ![c].closed = TRUE]
            /\ bpc' = bpc
    /\ bidx' = [bidx EXCEPT ![p] = @ + 1]
    /\ UNCHANGED << subscribers, busMu, bcall, received, eos, npub, nbus, nrecv >>
    /\ UNCHANGED << mgrVars, tuiVars, quietVars >>

\* b.subscribers = nil and the deferred Unlock
CloseDone(p) ==
    /\ bpc[p] = "closeChan"
    /\ bidx[p] > Len(subscribers)
    /\ subscribers' = <<>>
    /\ busMu' = Unlocked
    /\ BusGoto(p, "idle")
    /\ UNCHANGED << chans, bcall, bidx, received, eos, npub, nbus, nrecv >>
    /\ UNCHANGED << mgrVars, tuiVars, quietVars >>

\* Bus.SubscriberCount: RLock, len(b.subscribers), RUnlock
SubscriberCount(p) ==
    /\ bpc[p] = "idle"
    /\ busMu.writer = 0
    /\ bcall' = [bcall EXCEPT ![p] =
                    [op |-> "SubscriberCount", arg |-> 0, out |-> Len(subscribers)]]
    /\ nbus' = nbus + 1
    /\ UNCHANGED << subscribers, busMu, chans, bpc, bidx, received, eos, npub, nrecv >>
    /\ UNCHANGED << mgrVars, tuiVars, quietVars >>

\* the subscriber's read of its channel, event, ok := <-ch: the oldest
\* buffered event; ok = false once the channel is closed and empty; the
\* read waits while the channel is open and empty
Receive(c) ==
    /\ c \in Channels
    /\ chans[c].buf # <<>> \/ chans[c].closed
    /\ IF chans[c].buf # <<>>
       THEN /\ received' = [received EXCEPT ![c] = Append(@, Head(chans[c].buf))]
            /\ chans' = [chans EXCEPT ![c].buf = Tail(@)]
            /\ eos' = eos
       ELSE /\ eos' = [eos EXCEPT ![c] = TRUE]
            /\ UNCHANGED << received, chans >>
    /\ nrecv' = nrecv + 1
    /\ UNCHANGED << subscribers, busMu, bpc, bcall, bidx, npub, nbus >>
    /\ UNCHANGED << mgrVars, tuiVars, quietVars >>

\* a buffer holding n events published earlier
Backlog(n) == [ i \in 1..n |-> 0 ]

\* a bus at work: each caller may have subscribed earlier, and the buffer
\* of a subscriber is empty or full
InitBus ==
    /\ ManagerIdle
    /\ NoDashboard
    /\ Quiet
    /\ \E n \in 0..Cardinality(Procs) :
       \E fill \in [1..n -> {0, BufferSize}] :
          /\ subscribers = [ i \in 1..n |-> i ]
          /\ chans = [ i \in 1..n |->
                         [buf |-> Backlog(fill[i]), cap |-> BufferSize,
                          closed |-> FALSE] ]
          /\ received = [ i \in 1..n |-> <<>> ]
          /\ eos = [ i \in 1..n |-> FALSE ]
    /\ busMu = Unlocked
    /\ bpc = [p \in Procs |-> "idle"]
    /\ bcall = [p \in Procs |-> [op |-> "none", arg |-> 0, out |-> 0]]
    /\ bidx = [p \in Procs |-> 0]
    /\ npub = 0
    /\ nbus = 0
    /\ nrecv = 0

\* the steps inside the caller's call of the bus
BusStep(p) ==
    \/ SubLock(p)
    \/ SubAppend(p)
    \/ PubLock(p)
    \/ PubSend(p)
    \/ PubDone(p)
    \/ CloseLock(p)
    \/ CloseChan(p)
    \/ CloseDone(p)

NextBus ==
    \/ \E p \in Procs :
          \/ nbus < MaxBusCalls /\ Subscribe(p)
          \/ nbus < MaxBusCalls /\ Publish(p)
          \/ nbus < MaxBusCalls /\ Close(p)
          \/ nbus < MaxBusCalls /\ SubscriberCount(p)
          \/ BusStep(p)
    \/ \E c \in Channels : nrecv < MaxReceives /\ Receive(c)

\* a call that has started goes on: the scheduler runs every goroutine
SpecBus ==
    /\ InitBus
    /\ [][NextBus]_vars
    /\ \A p \in Procs : WF_vars(BusStep(p))

\* the number of copies of event e the subscriber of channel c has been
\* given: those it has read and those waiting in the buffer
Copies(c, e) ==
    LET all == received[c] \o chans[c].buf
    IN  Cardinality({ i \in 1..Len(all) : all[i] = e })

Publishing(p) == bcall[p].op = "Publish" /\ bpc[p] # "idle"

\* the step is a round of the loop of p's Publish
SendStep(p) ==
    /\ bpc[p] = "pubSend"
    /\ bidx'[p] = bidx[p] + 1

(***************************************************************************)
(* C22: Publish never waits for a subscriber: with the read lock held,     *)
(* its next step can always be taken, whatever the buffers hold, and the   *)
(* call returns.  A round of its loop leaves a full buffer as it is (the   *)
(* event is dropped for that subscriber) and appends the event to a buffer *)
(* with room, touching no other channel; the loop visits every subscriber  *)
(* once, so no subscriber holds two copies of an event.                    *)
(***************************************************************************)
C22_Inv ==
    /\ \A p \in Procs :
          /\ bpc[p] = "pubSend" => ENABLED (PubSend(p) \/ PubDone(p))
          /\ bpc[p] # "panic"
    /\ \A c \in Channels : \A e \in 1..npub : Copies(c, e) <= 1

C22_Step ==
    \A p \in Procs :
        /\ SendStep(p) =>
              LET c == subscribers[bidx[p]] IN
              /\ IF Len(chans[c].buf) < BufferSize
                 THEN chans'[c].buf = Append(chans[c].buf, bcall[p].arg)
                 ELSE chans'[c] = chans[c]
              /\ \A d \in Channels \ {c} : chans'[d] = chans[d]
        /\ (Publishing(p) /\ bpc'[p] = "idle") =>
              bidx[p] = Len(subscribers) + 1

C22_Returns == \A p \in Procs : Publishing(p) ~> (bpc[p] = "idle")

\* C22: Publish drops for the full subscriber only and never blocks
C22_PublishNeverBlocks == []C22_Inv /\ [][C22_Step]_vars /\ C22_Returns

C22_Witness ==
    \E p \in Procs : \E c, d \in Channels :
        /\ bcall[p].op = "Publish" /\ bpc[p] = "idle"
        /\ Len(chans[c].buf) = BufferSize
        /\ Copies(c, bcall[p].arg) = 0
        /\ Copies(d, bcall[p].arg) = 1
        /\ nrecv = 0

\* the step is the return of p's Close
CloseReturns(p) == bcall[p].op = "Close" /\ bpc[p] = "closeChan" /\ bpc'[p] = "idle"

(***************************************************************************)
(* C24: when Close returns, every channel Subscribe has handed out so far  *)
(* is closed (by this Close or by an earlier one) and the bus has no       *)
(* subscriber left.  A read of a closed channel still yields the oldest    *)
(* buffered event while there is one, and reports the end of the stream    *)
(* only when the buffer is empty.  No channel is closed twice and nothing  *)
(* is sent on a closed channel.                                            *)
(***************************************************************************)
C24_Inv ==
    /\ \A c \in Channels :
          /\ eos[c] => (chans[c].closed /\ chans[c].buf = <<>>)
          /\ chans[c].closed =>
                c \notin { subscribers[i] : i \in 1..Len(subscribers) }
                \/ \E p \in Procs : bpc[p] = "closeChan"
    /\ \A p \in Procs : bpc[p] # "panic"

C24_Step ==
    /\ \A p \in Procs :
          CloseReturns(p) =>
              /\ \A c \in Channels : chans'[c].closed
              /\ Len(subscribers') = 0
              /\ \A q \in Procs : bpc[q] \notin {"subAppend", "pubSend"}
    /\ \A c \in Channels :
          (chans[c].closed /\ nrecv' = nrecv + 1 /\ received'[c] # received[c]) =>
              /\ chans[c].buf # <<>>
              /\ received'[c] = Append(received[c], Head(chans[c].buf))
              /\ eos'[c] = eos[c]
    /\ \A c \in Channels :
          (chans[c].closed /\ chans[c].buf # <<>>) => ~eos'[c]

\* C24: Close closes every subscriber channel and empties the list
C24_CloseClosesAll == []C24_Inv /\ [][C24_Step]_vars

C24_Witness ==
    \E p \in Procs : \E c, d \in Channels :
        /\ bcall[p].op = "Close" /\ bpc[p] = "idle"
        /\ c # d
        /\ chans[c].closed /\ chans[d].closed
        /\ Len(subscribers) = 0
        /\ eos[c] /\ received[c] = << 1 >>

(***************************************************************************)
(* The overflow of a buffer: one caller subscribes to a new bus and        *)
(* publishes Burst events, and the subscriber starts to read only when     *)
(* the last Publish has returned.                                          *)
(***************************************************************************)
\* the events TestEventBus_BufferOverflow publishes
Burst == 101

InitOverflow == ManagerIdle /\ NewBus /\ NoDashboard /\ Quiet

NextOverflow ==
    \/ Len(chans) = 0 /\ Subscribe(1)
    \/ SubLock(1)
    \/ SubAppend(1)
    \/ Len(chans) = 1 /\ npub < Burst /\ Publish(1)
    \/ PubLock(1)
    \/ PubSend(1)
    \/ PubDone(1)
    \/ npub = Burst /\ bpc[1] = "idle" /\ Receive(1)

SpecOverflow ==
    /\ InitOverflow
    /\ [][NextOverflow]_vars
    /\ WF_vars(BusStep(1))

\* the events 1..n in the order of their publication
FirstEvents(n) == [ i \in 1..n |-> i ]

AllPublished == npub = Burst /\ bpc[1] = "idle"

(***************************************************************************)
(* C23: a buffer never holds more than 100 events.  With 101 events        *)
(* published to a subscriber that reads nothing meanwhile, every Publish   *)
(* returns, the buffer then holds the first 100 events in the order of     *)
(* their publication, and they are what the subscriber reads, in that      *)
(* order; the 101st is never read.                                         *)
(***************************************************************************)
C23_Inv ==
    /\ \A c \in Channels :
          /\ Len(chans[c].buf) <= BufferSize
          /\ \A i \in 1..Len(received[c]) : received[c][i] = i
          /\ Len(received[c]) <= BufferSize
    /\ (AllPublished /\ nrecv = 0) => chans[1].buf = FirstEvents(BufferSize)
    /\ (AllPublished /\ chans[1].buf = <<>>) => received[1] = FirstEvents(BufferSize)

C23_Returns == Publishing(1) ~> (bpc[1] = "idle")

\* C23: 101 events to an idle subscriber: the first 100 kept, the last lost
C23_BufferOverflow == []C23_Inv /\ C23_Returns

C23_Witness ==
    /\ AllPublished
    /\ chans[1].buf = <<>>
    /\ Len(received[1]) = 100
    /\ received[1][100] = 100

(***************************************************************************)
(* The dashboard: tui.Model, its Bubble Tea commands and its file watcher. *)
(* The program's event loop takes one message at a time and runs           *)
(* Model.Update on it; each command runs in a goroutine of its own and     *)
(* its result is the next message it hands to the loop.                    *)
(***************************************************************************)
MaxWrites == 2

\* make(chan tea.Msg, 100)
EventChanSize == 100

\* ".cwt", "sessions.json", "session-state", ".git", "index", ".json"
DataDir == <<46, 99, 119, 116>>
SessionsJson == <<115, 101, 115, 115, 105, 111, 110, 115, 46, 106, 115, 111, 110>>
SessionState == <<115, 101, 115, 115, 105, 111, 110, 45, 115, 116, 97, 116, 101>>
DotGit == <<46, 103, 105, 116>>
IndexName == <<105, 110, 100, 101, 120>>
DotJson == <<46, 106, 115, 111, 110>>

\* filepath.Join of two clean relative paths
Join(dir, file) == dir \o <<47>> \o file

\* the position of the last separator of the path, 0 when there is none
LastSlash(path) ==
    IF \E i \in 1..Len(path) : path[i] = 47
    THEN CHOOSE i \in 1..Len(path) :
            path[i] = 47 /\ \A j \in (i + 1)..Len(path) : path[j] # 47
    ELSE 0

\* filepath.Base and filepath.Dir of a clean relative path
Base(path) == SubSeq(path, LastSlash(path) + 1, Len(path))
Dir(path) == IF LastSlash(path) = 0 THEN <<46>>
             ELSE SubSeq(path, 1, LastSlash(path) - 1)

SessionsFile == Join(DataDir, SessionsJson)
SessionStateDir == Join(DataDir, SessionState)
\* the state file of a session: session-state/<id>.json
StateFileName(id) == Join(SessionStateDir, <<48 + id>> \o DotJson)
\* the index file addSessionWatches looks for
GitIndexPath(worktreePath) == Join(Join(worktreePath, DotGit), IndexName)

Msg(type, sessionID) == [ type |-> type, sessionID |-> sessionID ]

SessionIDs(list) == { list[i].core.id : i \in 1..Len(list) }

\* Model.getSessionIDFromPath, called by the watcher goroutine on the Model
\* value setupFileWatching was called on; -1 stands for ""
getSessionIDFromPath(path) ==
    LET found == { i \in 1..Len(watcherSessions) :
                     Dir(path) = Join(watcherSessions[i].core.worktree_path, DotGit) }
    IN  IF found = {} THEN -1
        ELSE watcherSessions[CHOOSE i \in found : \A j \in found : i <= j].core.id

\* the message the watcher goroutine makes of a file event; type "none"
\* when it makes none
EventMsg(name) ==
    IF Base(Dir(name)) = SessionState THEN Msg("sessionStateChangedMsg", -1)
    ELSE IF Base(name) = SessionsJson THEN Msg("sessionListChangedMsg", -1)
    ELSE IF Base(name) = IndexName /\ getSessionIDFromPath(name) # -1
         THEN Msg("gitIndexChangedMsg", getSessionIDFromPath(name))
    ELSE Msg("none", -1)

\* m.refreshSessions() is handed to the program: a new command starts
StartRefresh ==
    /\ nstart' = nstart + 1
    /\ refreshes' = refreshes \cup
                      { [seq |-> nstart + 1, derived |-> FALSE, result |-> <<>>] }
    /\ latest' = [known |-> FALSE, result |-> <<>>, shown |-> latest.shown]

tuiOuter == UNCHANGED << impl, now, ncalls, tempFile, responses, tmuxAlive,
                         branches, settings, stateFiles, mu, pc, call, core,
                         cores, result, ret, trace, busVars, quietVars >>

tuiFrame == tuiOuter /\ UNCHANGED delivery

\* the state after NewModel and the start of the commands of Model.Init
InitTui ==
    /\ impl = "mock"
    /\ now = 0
    /\ ncalls = 0
    /\ tempFile = MissingFile
    /\ responses = NoResponses
    /\ tmuxAlive = {}
    /\ branches = {}
    /\ settings = {}
    /\ stateFiles = [id \in Ids |-> NoStateFile]
    /\ mu = Unlocked
    /\ pc = [p \in Procs |-> "idle"]
    /\ call = [p \in Procs |-> [op |-> "none", arg |-> <<>>]]
    /\ core = [p \in Procs |-> NoCore]
    /\ cores = [p \in Procs |-> <<>>]
    /\ result = [p \in Procs |-> "none"]
    /\ ret = [p \in Procs |-> NilSessions]
    /\ trace = [p \in Procs |-> <<>>]
    /\ NewBus
    /\ Quiet
    /\ \E l \in ListsOf({ NewCore(<<97>>, 0) }, 1) :
          /\ storeFile = IF l = <<>> THEN MissingFile ELSE JsonFile(l)
          /\ worktrees = { l[i].worktree_path : i \in 1..Len(l) }
          /\ modelSessions = DeriveSessions(l)
          /\ watcherSessions = DeriveSessions(l)
          /\ startupSessions = DeriveSessions(l)
          /\ refreshes = { [seq |-> 0, derived |-> TRUE, result |-> DeriveSessions(l)] }
          /\ latest = [known |-> TRUE, result |-> DeriveSessions(l), shown |-> 0]
    /\ fileWatcher = FALSE
    /\ setupState = "pending"
    /\ watched = {}
    /\ watcherEvents = <<>>
    /\ sleepers = <<>>
    /\ eventChan = <<>>
    /\ listeners = 1
    /\ gitTimer = TRUE
    /\ tmuxTimer = TRUE
    /\ nstart = 0
    /\ nbursts = 0
    /\ nwrites = 0
    /\ delivery = [enqueued |-> 0, handled |-> 0]

\* the command of setupFileWatching: the watcher, its first watches, and
\* the goroutine that reads watcher.Events
SetupFileWatching ==
    /\ setupState = "pending"
    /\ setupState' = "running"
    /\ watched' =
          {SessionStateDir}
          \cup (IF storeFile # MissingFile THEN {SessionsFile} ELSE {})
          \cup { GitIndexPath(watcherSessions[i].core.worktree_path) :
                   i \in { j \in 1..Len(watcherSessions) :
                             watcherSessions[j].core.worktree_path \in worktrees } }
    /\ UNCHANGED << modelSessions, fileWatcher, watcherSessions, watcherEvents,
                    sleepers, eventChan, listeners, refreshes, gitTimer,
                    tmuxTimer, nstart, latest, startupSessions, nbursts, nwrites >>
    /\ UNCHANGED << storeFile, worktrees >>
    /\ tuiFrame

\* Update(fileWatcherSetupMsg)
UpdateFileWatcherSetup ==
    /\ setupState = "running"
    /\ setupState' = "done"
    /\ fileWatcher' = TRUE
    /\ listeners' = listeners + 1
    /\ startupSessions' = modelSessions
    /\ UNCHANGED << modelSessions, watched, watcherSessions, watcherEvents,
                    sleepers, eventChan, refreshes, gitTimer, tmuxTimer,
                    nstart, latest, nbursts, nwrites >>
    /\ UNCHANGED << storeFile, worktrees >>
    /\ tuiFrame

\* a session is created (by the dashboard's own command or by another
\* cwt process): its worktree, and sessions.json renamed into place
SessionCreated(c) ==
    /\ nwrites < MaxWrites
    /\ c.id \notin { StoreRecords[i].id : i \in 1..Len(StoreRecords) }
    /\ c.name \notin { StoreRecords[i].name : i \in 1..Len(StoreRecords) }
    /\ storeFile' = JsonFile(Append(StoreRecords, c))
    /\ worktrees' = worktrees \cup {c.worktree_path}
    /\ watcherEvents' = IF SessionsFile \in watched
                        THEN Append(watcherEvents, SessionsFile)
                        ELSE watcherEvents
    /\ nwrites' = nwrites + 1
    /\ UNCHANGED << modelSessions, fileWatcher, setupState, watched,
                    watcherSessions, sleepers, eventChan, listeners, refreshes,
                    gitTimer, tmuxTimer, nstart, latest, startupSessions, nbursts >>
    /\ tuiFrame

\* a write of a watched file: the index of a worktree (git add), or a
\* session-state file (cwt __hook)
FileWritten(name) ==
    /\ nwrites < MaxWrites
    /\ name \in watched \/ Dir(name) \in watched
    /\ watcherEvents' = Append(watcherEvents, name)
    /\ nwrites' = nwrites + 1
    /\ UNCHANGED << modelSessions, fileWatcher, setupState, watched,
                    watcherSessions, sleepers, eventChan, listeners, refreshes,
                    gitTimer, tmuxTimer, nstart, latest, startupSessions, nbursts >>
    /\ UNCHANGED << storeFile, worktrees >>
    /\ tuiFrame

\* the watcher goroutine: one event of watcher.Events, and the goroutine
\* it starts for the message; events that arrive while a goroutine for
\* the same message sleeps belong to the same burst
WatcherLoop ==
    /\ watcherEvents # <<>>
    /\ LET msg == EventMsg(Head(watcherEvents))
           same == { i \in 1..Len(sleepers) : sleepers[i].msg = msg }
           burst == IF same = {} THEN nbursts + 1
                    ELSE sleepers[CHOOSE i \in same : TRUE].burst
       IN  /\ sleepers' = IF msg.type = "none" THEN sleepers
                          ELSE Append(sleepers, [msg |-> msg, burst |-> burst])
           /\ nbursts' = IF msg.type = "none" \/ same # {} THEN nbursts
                         ELSE nbursts + 1
    /\ watcherEvents' = Tail(watcherEvents)
    /\ UNCHANGED << modelSessions, fileWatcher, setupState, watched,
                    watcherSessions, eventChan, listeners, refreshes, gitTimer,
                    tmuxTimer, nstart, latest, startupSessions, nwrites >>
    /\ UNCHANGED << storeFile, worktrees >>
    /\ tuiFrame

\* a goroutine returns from time.Sleep: select { case eventChan <- msg:
\* default: }
SleeperSends(i) ==
    /\ i \in 1..Len(sleepers)
    /\ eventChan' = IF Len(eventChan) < EventChanSize
                    THEN Append(eventChan, sleepers[i])
                    ELSE eventChan
    /\ delivery' = IF Len(eventChan) < EventChanSize
                   THEN [delivery EXCEPT !.enqueued = @ + 1]
                   ELSE delivery
    /\ sleepers' = [ j \in 1..(Len(sleepers) - 1) |->
                       IF j < i THEN sleepers[j] ELSE sleepers[j + 1] ]
    /\ UNCHANGED << modelSessions, fileWatcher, setupState, watched,
                    watcherSessions, watcherEvents, listeners, refreshes,
                    gitTimer, tmuxTimer, nstart, latest, startupSessions,
                    nbursts, nwrites >>
    /\ UNCHANGED << storeFile, worktrees >>
    /\ tuiOuter

\* UpdateFileEvent with the listener not started again by the handler
UpdateFileEvent_NoRestart ==
    /\ listeners > 0
    /\ eventChan # <<>>
    /\ eventChan' = Tail(eventChan)
    /\ delivery' = [delivery EXCEPT !.handled = @ + 1]
    /\ listeners' = listeners - 1
    /\ StartRefresh
    /\ UNCHANGED << modelSessions, fileWatcher, setupState, watched,
                    watcherSessions, watcherEvents, sleepers,
                    gitTimer, tmuxTimer, startupSessions, nbursts, nwrites >>
    /\ UNCHANGED << storeFile, worktrees >>
    /\ tuiOuter

\* startEventChannelListener returns a message of eventChan, and Update of
\* sessionStateChangedMsg, sessionListChangedMsg or gitIndexChangedMsg:
\* a refresh and a new listener
UpdateFileEvent ==
    /\ listeners > 0
    /\ eventChan # <<>>
    /\ eventChan' = Tail(eventChan)
    /\ delivery' = [delivery EXCEPT !.handled = @ + 1]
    /\ StartRefresh
    /\ UNCHANGED << modelSessions, fileWatcher, setupState, watched,
                    watcherSessions, watcherEvents, sleepers, listeners,
                    gitTimer, tmuxTimer, startupSessions, nbursts, nwrites >>
    /\ UNCHANGED << storeFile, worktrees >>
    /\ tuiOuter

\* the timer of tea.Every(10s) fires, and Update(gitStatusRefreshMsg):
\* refreshAllGitStatus; tea.Every sends one message
UpdateGitStatusRefresh ==
    /\ gitTimer
    /\ gitTimer' = FALSE
    /\ StartRefresh
    /\ UNCHANGED << modelSessions, fileWatcher, setupState, watched,
                    watcherSessions, watcherEvents, sleepers, eventChan,
                    listeners, tmuxTimer, startupSessions, nbursts, nwrites >>
    /\ UNCHANGED << storeFile, worktrees >>
    /\ tuiFrame

\* the timer of tea.Every(30s) fires, and Update(tmuxStatusRefreshMsg):
\* refreshTmuxStatus
UpdateTmuxStatusRefresh ==
    /\ tmuxTimer
    /\ tmuxTimer' = FALSE
    /\ StartRefresh
    /\ UNCHANGED << modelSessions, fileWatcher, setupState, watched,
                    watcherSessions, watcherEvents, sleepers, eventChan,
                    listeners, gitTimer, startupSessions, nbursts, nwrites >>
    /\ UNCHANGED << storeFile, worktrees >>
    /\ tuiFrame

\* the command of refreshSessions: DeriveFreshSessions; when it fails the
\* command returns errorMsg, and Update(errorMsg) starts a listener
RefreshSessions(r) ==
    /\ r \in refreshes
    /\ ~r.derived
    /\ IF DerivedNow.nil
       THEN /\ refreshes' = refreshes \ {r}
            /\ listeners' = listeners + 1
            /\ latest' = latest
       ELSE /\ refreshes' = (refreshes \ {r}) \cup
                  { [seq |-> r.seq, derived |-> TRUE, result |-> DerivedNow.list] }
            /\ listeners' = listeners
            /\ latest' = IF r.seq = nstart
                         THEN [known |-> TRUE, result |-> DerivedNow.list,
                               shown |-> latest.shown]
                         ELSE latest
    /\ UNCHANGED << modelSessions, fileWatcher, setupState, watched,
                    watcherSessions, watcherEvents, sleepers, eventChan,
                    gitTimer, tmuxTimer, nstart, startupSessions, nbursts, nwrites >>
    /\ UNCHANGED << storeFile, worktrees >>
    /\ tuiFrame

\* Update(refreshCompleteMsg): the list replaces Model.sessions, and the
\* index files of the sessions that were not in the old list are watched
UpdateRefreshComplete(r) ==
    /\ r \in refreshes
    /\ r.derived
    /\ modelSessions' = r.result
    /\ watched' =
          IF fileWatcher
          THEN watched \cup
               { GitIndexPath(r.result[i].core.worktree_path) :
                   i \in { j \in 1..Len(r.result) :
                             /\ r.result[j].core.id \notin SessionIDs(modelSessions)
                             /\ r.result[j].core.worktree_path \in worktrees } }
          ELSE watched
    /\ refreshes' = refreshes \ {r}
    /\ latest' = [latest EXCEPT !.shown = r.seq]
    /\ UNCHANGED << fileWatcher, setupState, watcherSessions, watcherEvents,
                    sleepers, eventChan, listeners, gitTimer, tmuxTimer, nstart,
                    startupSessions, nbursts, nwrites >>
    /\ UNCHANGED << storeFile, worktrees >>
    /\ tuiFrame

\* the files whose writes the watcher can see
WatchedFiles ==
    { GitIndexPath(StoreRecords[i].worktree_path) : i \in 1..Len(StoreRecords) }
    \cup { StateFileName(StoreRecords[i].id) : i \in 1..Len(StoreRecords) }

NextTui ==
    \/ SetupFileWatching
    \/ UpdateFileWatcherSetup
    \/ \E c \in DeriveCores : SessionCreated(c)
    \/ \E name \in WatchedFiles : FileWritten(name)
    \/ WatcherLoop
    \/ \E i \in 1..Len(sleepers) : SleeperSends(i)
    \/ UpdateFileEvent
    \/ UpdateGitStatusRefresh
    \/ UpdateTmuxStatusRefresh
    \/ \E r \in refreshes : RefreshSessions(r)
    \/ \E r \in refreshes : UpdateRefreshComplete(r)

\* a timer that runs fires, and a command that runs returns
SpecTui ==
    /\ InitTui
    /\ [][NextTui]_vars
    /\ WF_vars(UpdateGitStatusRefresh)
    /\ WF_vars(UpdateTmuxStatusRefresh)

(***************************************************************************)
(* C25: file events of one kind that arrive within the debounce window     *)
(* (while the goroutine of an earlier one is still in its 100 ms sleep)    *)
(* are coalesced: of one burst, at most one refresh request is enqueued    *)
(* on the event channel.                                                   *)
(***************************************************************************)
C25_Debounced ==
    \A i, j \in 1..Len(eventChan) :
        i # j => eventChan[i].burst # eventChan[j].burst

\* the sessions the dashboard shows that were not there when the file
\* watcher was stored
AppearedAfterStartup ==
    { i \in 1..Len(modelSessions) :
        modelSessions[i].core.id \notin SessionIDs(startupSessions) }

(***************************************************************************)
(* C26: once the dashboard runs, the index file of every session that      *)
(* appears in it later is in the watch set, and an event of that index     *)
(* file makes the watcher goroutine start a gitIndexChangedMsg naming      *)
(* that session.                                                           *)
(***************************************************************************)
C26_Inv ==
    fileWatcher =>
        \A i \in AppearedAfterStartup :
            GitIndexPath(modelSessions[i].core.worktree_path) \in watched

C26_Step ==
    \A i \in AppearedAfterStartup :
        ( /\ watcherEvents # <<>>
          /\ watcherEvents' = Tail(watcherEvents)
          /\ Head(watcherEvents) = GitIndexPath(modelSessions[i].core.worktree_path) )
        => /\ Len(sleepers') = Len(sleepers) + 1
           /\ Last(sleepers').msg =
                 Msg("gitIndexChangedMsg", modelSessions[i].core.id)

\* C26: new sessions' index files are watched and their events reported
C26_NewSessionsWatched == []C26_Inv /\ [][C26_Step]_vars

(***************************************************************************)
(* C27: polling is periodic: the git tick and the tmux tick are each       *)
(* handled again and again, so each kind of refresh is requested           *)
(* infinitely often.                                                       *)
(***************************************************************************)
C27_PollingPeriodic ==
    /\ []<><<UpdateGitStatusRefresh>>_vars
    /\ []<><<UpdateTmuxStatusRefresh>>_vars

(***************************************************************************)
(* C28: the dashboard never ends up with a stale list: when no refresh is  *)
(* in flight the list it holds is the result of the derivation started     *)
(* last, and the result of a derivation never replaces the result of one   *)
(* that was started later.                                                 *)
(***************************************************************************)
C28_Inv == refreshes = {} => (latest.known /\ modelSessions = latest.result)

C28_Step ==
    \A r \in refreshes :
        (r.derived /\ refreshes' = refreshes \ {r}) => r.seq >= latest.shown

\* C28: the newest derivation wins
C28_NoStaleList == []C28_Inv /\ [][C28_Step]_vars


(***************************************************************************)
(* validateSessionName on its own: one name is drawn and validated.        *)
(***************************************************************************)
\* the longest run of one character among the inputs: one past the limit
\* of validation.go
MaxNameLen == 51

RECURSIVE Repeat(_, _)
\* strings.Repeat of a one-character string
Repeat(r, n) == IF n = 0 THEN <<>> ELSE <<r>> \o Repeat(r, n - 1)

\* a 1 + - . / space @ { e-acute, an emoji, zero-width space, tab, _, the
\* byte 0xFF, ~
ValidateAlphabet ==
    { 97, 49, 43, 45, 46, 47, 32, 64, 123, 233, 128512, 8203, 9, 95, -255, 126 }

\* the names of at most two characters over ValidateAlphabet
ShortNames ==
    { <<>> } \cup { <<r>> : r \in ValidateAlphabet }
             \cup { <<r, q>> : r \in ValidateAlphabet, q \in ValidateAlphabet }

\* runs of 0, of 1 and of 9, of every length up to MaxNameLen
DigitNames == { Repeat(d, n) : d \in {48, 49, 57}, n \in 1..MaxNameLen }

\* runs of a letter, of an accented letter and of an emoji, each followed by
\* the letter a
LetterNames ==
    { Repeat(r, n) \o <<97>> : r \in {97, 233, 128512}, n \in 1..(MaxNameLen - 1) }

\* the reserved names, in other cases and with the long s, and names close
\* to them; names around ".lock"
WordNames ==
    reservedNames \cup
    { <<77, 65, 73, 78>>, <<77, 97, 115, 116, 101, 114>>,
      <<104, 101, 97, 100>>, <<82, 69, 70, 83>>,
      <<109, 97, 383, 116, 101, 114>>, <<109, 97, 105, 110, 115>>,
      <<97>> \o DotLock, <<97>> \o DotLock \o <<120>>,
      <<97, 46, 76, 79, 67, 75>>, <<97, 47, 98>>, <<97, 46, 98>>,
      <<97, 64, 98>>, <<97, 173, 98>>, <<97, 127, 98>>,
      MaxInt64Digits, MinInt64Digits, <<43>> \o MaxInt64Digits }

ValidateInputs == ShortNames \cup DigitNames \cup LetterNames \cup WordNames

InitValidate ==
    /\ ManagerIdle
    /\ NewBus
    /\ NoDashboard
    /\ NoSweep
    /\ NoHook
    /\ NoDialog
    /\ vname \in ValidateInputs
    /\ verdict = "none"

\* one call of validateSessionName: "nil" or "error"
Validate ==
    /\ verdict = "none"
    /\ verdict' = IF validateSessionName(vname) THEN "nil" ELSE "error"
    /\ UNCHANGED << vname, sweep, hook, dialog, mgrVars, busVars, tuiVars >>

NextValidate == Validate

SpecValidate == InitValidate /\ [][NextValidate]_vars

\* the name consists solely of decimal digits
AllDigits(name) == name # <<>> /\ \A i \in 1..Len(name) : IsDigit(name[i])

\* the documented forbidden set; a name is as many characters long as it
\* has code points
ForbiddenName(name) ==
    \/ name = <<>>
    \/ Len(name) > 50
    \/ \E c \in invalidChars : Contains(name, c)
    \/ \E c \in invalidStartEnd : HasPrefix(name, c) \/ HasSuffix(name, c)
    \/ AllDigits(name)
    \/ \E r \in reservedNames : EqualFold(name, r)
    \/ HasSuffix(name, DotLock)
    \/ \E i \in 1..Len(name) :
          \/ name[i] >= 0 /\ name[i] < 32
          \/ name[i] = 127
          \/ IsCf(name[i])
    \/ ~\E i \in 1..Len(name) : validChar(name[i])

(***************************************************************************)
(* C29: validateSessionName rejects a name if and only if the name is in   *)
(* the documented forbidden set (empty, longer than 50 characters, a       *)
(* forbidden character or sequence, a forbidden first or last character,   *)
(* purely numeric, a reserved name in any case, ending in ".lock", a       *)
(* control or format character, no character of [a-zA-Z0-9_-]); every      *)
(* other name, accented letters and emoji included, is accepted.           *)
(***************************************************************************)
C29_ValidationComplete ==
    verdict # "none" => (verdict = "error" <=> ForbiddenName(vname))

(***************************************************************************)
(* C30: validateSessionName rejects every name that consists solely of     *)
(* decimal digits, for every length from 1 to 50.                          *)
(***************************************************************************)
C30_AllDigitsRejected ==
    (verdict # "none" /\ AllDigits(vname) /\ Len(vname) <= 50)
        => verdict = "error"


(***************************************************************************)
(* The hooks createClaudeSettings installs, run by the assistant.          *)
(***************************************************************************)
\* the hook kinds of settings.json
HookKinds ==
    { "Notification", "Stop", "PreToolUse", "PostToolUse", "SubagentStop",
      "PreCompact" }

\* the event type in the command createClaudeSettings writes for a kind:
\* "<cwt> __hook <sessionID> <event type>"
InstalledEventType(kind) ==
    CASE kind = "Notification" -> "notification"
      [] kind = "Stop" -> "stop"
      [] kind = "PreToolUse" -> "pre_tool_use"
      [] kind = "PostToolUse" -> "post_tool_use"
      [] kind = "SubagentStop" -> "subagent_stop"
      [] kind = "PreCompact" -> "pre_compact"

\* the case labels of the switch of ParseClaudeStateFromEvent
RecognisedEvents == { "notification", "preToolUse", "postToolUse", "stop" }

\* a session was created: its settings.json is in its worktree and the
\* assistant runs in its tmux session
InitHook ==
    /\ impl = "mock"
    /\ now \in 0..MaxClock
    /\ ncalls = 0
    /\ tempFile = MissingFile
    /\ responses = NoResponses
    /\ branches = {}
    /\ mu = Unlocked
    /\ pc = [p \in Procs |-> "idle"]
    /\ call = [p \in Procs |-> [op |-> "none", arg |-> <<>>]]
    /\ core = [p \in Procs |-> NoCore]
    /\ cores = [p \in Procs |-> <<>>]
    /\ result = [p \in Procs |-> "none"]
    /\ ret = [p \in Procs |-> NilSessions]
    /\ trace = [p \in Procs |-> <<>>]
    /\ \E l \in ListsOf(DeriveCores, MaxRecords) :
          /\ l # <<>>
          /\ \A i, j \in 1..Len(l) : i # j => l[i] # l[j]
          /\ storeFile = JsonFile(l)
          /\ worktrees = { l[i].worktree_path : i \in 1..Len(l) }
          /\ tmuxAlive = { l[i].tmux_session : i \in 1..Len(l) }
          /\ settings = { [name |-> l[i].name, id |-> l[i].id] : i \in 1..Len(l) }
    /\ stateFiles \in [Ids -> {NoStateFile, SessionStateFile("working", 0)}]
    /\ NewBus
    /\ NoDashboard
    /\ NoValidation
    /\ NoSweep
    /\ NoDialog
    /\ NoHook

\* the assistant runs the installed command of one hook kind: runHookCmd
\* with args[0] the session id and args[1] the installed event type
HookFires(kind) ==
    /\ \E s \in settings :
          /\ TmuxSession(s.name) \in tmuxAlive
          /\ hook' = [ kind |-> kind, id |-> s.id ]
          /\ stateFiles' =
                [stateFiles EXCEPT ![s.id] =
                    SessionStateFile(
                        ParseClaudeStateFromEvent(InstalledEventType(kind)),
                        now)]
    /\ UNCHANGED << impl, now, ncalls, storeFile, tempFile, responses,
                    tmuxAlive, worktrees, branches, settings, mu, pc, call,
                    core, cores, result, ret, trace >>
    /\ UNCHANGED << busVars, tuiVars, valVars, sweep, dialog >>

NextHook == \E kind \in HookKinds : HookFires(kind)

SpecHook == InitHook /\ [][NextHook]_vars

(***************************************************************************)
(* C39: every hook command createClaudeSettings installs passes an event   *)
(* type ParseClaudeStateFromEvent recognises, and the state recorded is    *)
(* "working" after the pre-tool-use hook, "idle" after the post-tool-use   *)
(* hook and "complete" after the stop hook.                                *)
(***************************************************************************)
C39_HooksRecognised ==
    hook.kind # "none" =>
       /\ InstalledEventType(hook.kind) \in RecognisedEvents
       /\ hook.kind = "PreToolUse" => stateFiles[hook.id].claude_state = "working"
       /\ hook.kind = "PostToolUse" => stateFiles[hook.id].claude_state = "idle"
       /\ hook.kind = "Stop" => stateFiles[hook.id].claude_state = "complete"


\* what a channel has carried: the events read from it and those buffered
Carried(c) == received[c] \o chans[c].buf

(***************************************************************************)
(* C35: under every interleaving of Subscribe, Publish and Close, Publish  *)
(* never sends on a closed channel: no call panics, and the channels its   *)
(* loop still has to visit are open.  A closed channel stays closed and    *)
(* carries no further event, so a Publish that starts after a Close has    *)
(* returned delivers to none of the channels that Close closed.            *)
(***************************************************************************)
C35_Inv ==
    \A p \in Procs :
        /\ bpc[p] # "panic"
        /\ bpc[p] = "pubSend" =>
              \A i \in bidx[p]..Len(subscribers) : ~chans[subscribers[i]].closed

C35_Step ==
    \A c \in Channels :
        chans[c].closed => /\ chans'[c].closed
                           /\ Carried(c)' = Carried(c)

C35_NoSendOnClosed == []C35_Inv /\ [][C35_Step]_vars

\* a channel received event 1 and was closed, and the Publish of event 2
\* returned having delivered nothing to it
C35_Witness ==
    \E c \in Channels : \E p \in Procs :
        /\ chans[c].closed
        /\ Copies(c, 1) = 1
        /\ bcall[p] = [op |-> "Publish", arg |-> 2, out |-> 0]
        /\ bpc[p] = "idle"
        /\ Copies(c, 2) = 0


(***************************************************************************)
(* C34: no store update is lost.  Every write of the store is made on      *)
(* the store as it is at that moment: the save of a CreateSession that     *)
(* goes on to return success appends its record to the records the store   *)
(* holds then, the save of a DeleteSession that returns success removes    *)
(* the records of its id from them, and nothing else changes the store.    *)
(* So after any set of concurrent calls the store holds the initial        *)
(* records, plus those of the successful creations, minus those of the     *)
(* ids successfully deleted.                                               *)
(***************************************************************************)
C34_Step ==
    /\ storeFile' # storeFile =>
          \E p \in Procs :
              \/ /\ pc[p] = "addSave"
                 /\ StoreRecords' = Append(StoreRecords, core[p])
              \/ /\ pc[p] = "delSave"
                 /\ StoreRecords' = newCores(StoreRecords, call[p].arg)
    /\ \A p \in Procs :
          /\ (pc[p] = "addSave" /\ pc'[p] = "deriveSession") =>
                StoreRecords' = Append(StoreRecords, core[p])
          /\ (IsCreate(p) /\ pc[p] # "idle" /\ result'[p] = "ok") =>
                pc[p] = "deriveSession"
          /\ (pc[p] = "delSave" /\ result'[p] = "ok") =>
                StoreRecords' = newCores(StoreRecords, call[p].arg)

C34_NoLostUpdate == [][C34_Step]_vars

\* a CreateSession and a DeleteSession of another id have both returned
\* success, and the store holds the created record
C34_Witness ==
    \E p, q \in Procs :
        /\ IsCreate(p) /\ Returned(p) /\ result[p] = "ok"
        /\ IsDelete(q) /\ Returned(q) /\ result[q] = "ok"
        /\ Len(StoreRecords) = 1
        /\ StoreRecords[1].name = call[p].arg
        /\ StoreRecords[1].id # call[q].arg


(***************************************************************************)
(* DeleteSession on a store of several records: the records of distinct    *)
(* names and ids in every order, their worktrees, settings and state       *)
(* files in place and their tmux sessions running.                         *)
(***************************************************************************)
MaxDeleteRecords == 3

\* the number of DeleteSession calls made
MaxDeleteCalls == 2

\* the records CreateSession made for "a", "b", "c", ... at the clock
\* readings 0, 1, 2, ...
DeleteCores == { NewCore(<<96 + i>>, i - 1) : i \in 1..MaxDeleteRecords }
DeleteIds == { c.id : c \in DeleteCores }

InitDelete ==
    /\ impl \in {"mock", "real"}
    /\ now = 0
    /\ ncalls = 0
    /\ tempFile = MissingFile
    /\ responses = NoResponses
    /\ branches = {}
    /\ mu = Unlocked
    /\ pc = [p \in Procs |-> "idle"]
    /\ call = [p \in Procs |-> [op |-> "none", arg |-> <<>>]]
    /\ core = [p \in Procs |-> NoCore]
    /\ cores = [p \in Procs |-> <<>>]
    /\ result = [p \in Procs |-> "none"]
    /\ ret = [p \in Procs |-> NilSessions]
    /\ trace = [p \in Procs |-> <<>>]
    /\ \E l \in ListsOf(DeleteCores, MaxDeleteRecords) :
          /\ l # <<>>
          /\ \A i, j \in 1..Len(l) : i # j => l[i] # l[j]
          /\ storeFile = JsonFile(l)
          /\ worktrees = { l[i].worktree_path : i \in 1..Len(l) }
          /\ tmuxAlive = { l[i].tmux_session : i \in 1..Len(l) }
          /\ settings = { [name |-> l[i].name, id |-> l[i].id] : i \in 1..Len(l) }
          /\ stateFiles =
                [ id \in DeleteIds |->
                    IF IdIn(l, id) THEN SessionStateFile("working", 0)
                    ELSE NoStateFile ]
    /\ NewBus
    /\ NoDashboard
    /\ Quiet

NextDelete ==
    \E p \in Procs :
        \/ \E id \in DeleteIds : ncalls < MaxDeleteCalls /\ DeleteSession(p, id)
        \/ DelLock(p)
        \/ DelLoad(p)
        \/ CleanupKill(p)
        \/ CleanupRemoveWorktree(p)
        \/ CleanupRemoveState(p)
        \/ DelSave(p)

SpecDelete == InitDelete /\ [][NextDelete]_vars

\* the steps of cleanupExternalResources and the save that follows
Teardown == { "cleanupKill", "cleanupRemoveWorktree", "cleanupRemoveState", "delSave" }

(***************************************************************************)
(* C33: DeleteSession(id) tears down the resources of the record whose id  *)
(* matched and of no other record, wherever the record is in the store.    *)
(* During the teardown the record at hand is a record of the store with    *)
(* the id asked for; a step of the call takes away no tmux session, no     *)
(* worktree and no state file but those of that record; and each teardown  *)
(* call that succeeds leaves that record's resource gone.                  *)
(***************************************************************************)
C33_Inv ==
    \A p \in Procs :
        (IsDelete(p) /\ pc[p] \in Teardown) =>
            /\ core[p].id = call[p].arg
            /\ \E i \in 1..Len(StoreRecords) : StoreRecords[i] = core[p]

C33_Step ==
    \A p \in Procs :
        (IsDelete(p) /\ pc'[p] # pc[p]) =>
            /\ tmuxAlive \ tmuxAlive' \subseteq { core[p].tmux_session }
            /\ worktrees \ worktrees' \subseteq { core[p].worktree_path }
            /\ \A id \in DOMAIN stateFiles :
                  stateFiles'[id] # stateFiles[id] => id = call[p].arg
            /\ \A s \in settings \ settings' : s.id = call[p].arg
            /\ (pc[p] = "cleanupKill" /\ NewEntries(p) = << Rec("tmux:KillSession", TRUE) >>)
                  => core[p].tmux_session \notin tmuxAlive'
            /\ (pc[p] = "cleanupRemoveWorktree"
                  /\ NewEntries(p) = << Rec("git:RemoveWorktree", TRUE) >>)
                  => core[p].worktree_path \notin worktrees'
            /\ (pc[p] = "cleanupRemoveState"
                  /\ NewEntries(p) = << Rec("RemoveSessionState", TRUE) >>)
                  => stateFiles'[call[p].arg] = NoStateFile

C33_DeleteTearsDownMatched == []C33_Inv /\ [][C33_Step]_vars

\* the teardown of the middle record of three is done: its resources are
\* gone, those of the first and of the last record are in place
C33_Witness ==
    \E p \in Procs :
        /\ IsDelete(p) /\ pc[p] = "delSave"
        /\ Len(StoreRecords) = 3
        /\ StoreRecords[2] = core[p]
        /\ core[p].tmux_session \notin tmuxAlive
        /\ core[p].worktree_path \notin worktrees
        /\ stateFiles[core[p].id] = NoStateFile
        /\ \A i \in {1, 3} :
              /\ StoreRecords[i].tmux_session \in tmuxAlive
              /\ StoreRecords[i].worktree_path \in worktrees
              /\ stateFiles[StoreRecords[i].id] # NoStateFile


(***************************************************************************)
(* The new-session dialog of the dashboard (tui/model.go).  A submission   *)
(* returns tea.Batch of two commands: one returns sessionCreatingMsg at    *)
(* once, the other calls Manager.CreateSession and returns                 *)
(* sessionCreatedMsg or sessionCreationFailedMsg.  Bubble Tea runs each    *)
(* command of a batch in a goroutine of its own and Update handles the     *)
(* messages one at a time in the order they are sent.  dialog.cmds holds   *)
(* the commands whose message has not been handled yet: n is the number of *)
(* the submission and proc the caller of the Manager (0 before the call).  *)
(* The file watcher is left as it starts.                                  *)
(***************************************************************************)
MaxSubmits == 2

CreatingCmd(n, name) == [ n |-> n, kind |-> "creating", name |-> name, proc |-> 0 ]
CreateCmd(n, name) == [ n |-> n, kind |-> "create", name |-> name, proc |-> 0 ]

\* the names of Model.sessions
ModelNames == { modelSessions[i].core.name : i \in 1..Len(modelSessions) }

\* the dashboard after its first refresh, no submission made yet
InitDialog ==
    /\ impl = "mock"
    /\ now = 0
    /\ ncalls = 0
    /\ tempFile = MissingFile
    /\ responses = NoResponses
    /\ tmuxAlive = {}
    /\ branches = {}
    /\ settings = {}
    /\ stateFiles = [id \in Ids |-> NoStateFile]
    /\ mu = Unlocked
    /\ pc = [p \in Procs |-> "idle"]
    /\ call = [p \in Procs |-> [op |-> "none", arg |-> <<>>]]
    /\ core = [p \in Procs |-> NoCore]
    /\ cores = [p \in Procs |-> <<>>]
    /\ result = [p \in Procs |-> "none"]
    /\ ret = [p \in Procs |-> NilSessions]
    /\ trace = [p \in Procs |-> <<>>]
    /\ NewBus
    /\ NoValidation
    /\ NoSweep
    /\ NoHook
    /\ NoDialog
    /\ \E l \in ListsOf({ NewCore(<<97>>, 0) }, 1) :
          /\ storeFile = IF l = <<>> THEN MissingFile ELSE JsonFile(l)
          /\ worktrees = { l[i].worktree_path : i \in 1..Len(l) }
          /\ modelSessions = DeriveSessions(l)
          /\ watcherSessions = DeriveSessions(l)
          /\ startupSessions = DeriveSessions(l)
          /\ latest = [known |-> TRUE, result |-> DeriveSessions(l), shown |-> 0]
    /\ refreshes = {}
    /\ fileWatcher = FALSE
    /\ setupState = "pending"
    /\ watched = {}
    /\ watcherEvents = <<>>
    /\ sleepers = <<>>
    /\ eventChan = <<>>
    /\ listeners = 1
    /\ gitTimer = TRUE
    /\ tmuxTimer = TRUE
    /\ nstart = 0
    /\ nbursts = 0
    /\ nwrites = 0
    /\ delivery = [enqueued |-> 0, handled |-> 0]

dialogFrame == UNCHANGED << busVars, valVars, sweep, hook >>

\* handleNewSessionDialogSubmit with NameInput trimmed to the name: a name
\* of Model.sessions is refused, any other starts the two commands
handleNewSessionDialogSubmit(name) ==
    /\ dialog.nsubmit < MaxSubmits
    /\ name \notin ModelNames
    /\ dialog' = [dialog EXCEPT
                    !.nsubmit = @ + 1,
                    !.cmds = @ \cup { CreatingCmd(dialog.nsubmit + 1, name),
                                      CreateCmd(dialog.nsubmit + 1, name) }]
    /\ UNCHANGED << mgrVars, tuiVars >>
    /\ dialogFrame

\* Update(sessionCreatingMsg)
UpdateSessionCreating(c) ==
    /\ c \in dialog.cmds
    /\ c.kind = "creating"
    /\ dialog' = [dialog EXCEPT
                    !.creatingSessions = @ \cup {c.name},
                    !.cmds = @ \ {c}]
    /\ UNCHANGED << mgrVars, tuiVars >>
    /\ dialogFrame

\* the second command of the batch calls Manager.CreateSession
CreateCmdCalls(c, p) ==
    /\ c \in dialog.cmds
    /\ c.kind = "create"
    /\ c.proc = 0
    /\ \A d \in dialog.cmds : d.proc # p
    /\ pc[p] = "idle"
    /\ dialog' = [dialog EXCEPT !.cmds = (@ \ {c}) \cup {[c EXCEPT !.proc = p]}]
    /\ call' = [call EXCEPT ![p] = [op |-> "CreateSession", arg |-> c.name]]
    /\ ret' = [ret EXCEPT ![p] = NilSessions]
    /\ IF ~validateSessionName(c.name)
       THEN /\ Return(p, "InvalidName")
            /\ trace' = [trace EXCEPT ![p] = <<>>]
            /\ now' = now
       ELSE /\ Goto(p, "checkDuplicateName")
            /\ trace' = [trace EXCEPT ![p] =
                           << Rec("Publish:SessionCreationStarted", TRUE) >>]
            /\ cores' = cores
            /\ \E t \in TimeNow :
                  /\ now' = t
                  /\ core' = [core EXCEPT ![p] = NewCore(c.name, t)]
    /\ UNCHANGED << impl, ncalls, tempFile, responses, storeFile, extVars, mu >>
    /\ UNCHANGED tuiVars
    /\ dialogFrame

\* the call of the command has returned
CreateCmdDone(c) ==
    /\ c \in dialog.cmds
    /\ c.kind = "create"
    /\ c.proc # 0
    /\ pc[c.proc] = "idle"

\* Update(sessionCreatedMsg): the name leaves creatingSessions and a
\* refresh is started
UpdateSessionCreated(c) ==
    /\ CreateCmdDone(c)
    /\ result[c.proc] = "ok"
    /\ dialog' = [dialog EXCEPT
                    !.creatingSessions = @ \ {c.name},
                    !.cmds = @ \ {c}]
    /\ StartRefresh
    /\ UNCHANGED << modelSessions, fileWatcher, setupState, watched,
                    watcherSessions, watcherEvents, sleepers, eventChan,
                    listeners, gitTimer, tmuxTimer, startupSessions, nbursts,
                    nwrites, delivery >>
    /\ UNCHANGED mgrVars
    /\ dialogFrame

\* Update(sessionCreationFailedMsg): the name leaves creatingSessions
UpdateSessionCreationFailed(c) ==
    /\ CreateCmdDone(c)
    /\ result[c.proc] # "ok"
    /\ dialog' = [dialog EXCEPT
                    !.creatingSessions = @ \ {c.name},
                    !.cmds = @ \ {c}]
    /\ UNCHANGED << mgrVars, tuiVars >>
    /\ dialogFrame

NextDialog ==
    \/ \E name \in Names : handleNewSessionDialogSubmit(name)
    \/ \E c \in dialog.cmds :
          \/ UpdateSessionCreating(c)
          \/ \E p \in Procs : CreateCmdCalls(c, p)
          \/ UpdateSessionCreated(c)
          \/ UpdateSessionCreationFailed(c)
    \/ \E r \in refreshes : RefreshSessions(r) \/ UpdateRefreshComplete(r)
    \/ \E p \in Procs :
          \/ CheckDuplicate(p)
          \/ ValidateRepository(p)
          \/ ProvisionWorktree(p)
          \/ ProvisionSettings(p)
          \/ ProvisionTmux(p)
          \/ RollbackWorktree(p)
          \/ AddLock(p)
          \/ AddLoad(p)
          \/ AddSave(p)
          \/ CreateDone(p)
          \/ CleanupKill(p)
          \/ CleanupRemoveWorktree(p)
          \/ CleanupRemoveState(p)

SpecDialog == InitDialog /\ [][NextDialog]_vars

(***************************************************************************)
(* C37: a name is in creatingSessions only while a CreateSession of that   *)
(* name is in flight: once the sessionCreatedMsg or the                    *)
(* sessionCreationFailedMsg of a submission has been handled, and no other *)
(* submission of the name is under way, the name is not in                 *)
(* creatingSessions, in whatever order the two messages of the batch are   *)
(* delivered.                                                              *)
(***************************************************************************)
C37_CreatingOnlyInFlight ==
    \A name \in dialog.creatingSessions :
       \E c \in dialog.cmds : c.kind = "create" /\ c.name = name


(***************************************************************************)
(* The dashboard with the scheduling its liveness rests on: a listener     *)
(* blocked on eventChan receives when a message is buffered, and Bubble    *)
(* Tea hands the message to Update.                                        *)
(***************************************************************************)
SpecTuiLive == SpecTui /\ WF_vars(UpdateFileEvent)

(***************************************************************************)
(* C38: at least one event-channel listener is always pending or being     *)
(* handled, so every message enqueued on the file-event queue is           *)
(* eventually delivered and handled, exactly once: a message leaves the    *)
(* queue only from its head, by being handled, the handler leaves a        *)
(* listener behind, and the k-th message enqueued is followed by a k-th    *)
(* handling.                                                               *)
(***************************************************************************)
C38_Inv ==
    /\ listeners >= 1
    /\ delivery.handled + Len(eventChan) = delivery.enqueued

C38_Step ==
    /\ eventChan' # eventChan =>
          \/ /\ eventChan # <<>>
             /\ eventChan' = Tail(eventChan)
             /\ delivery'.handled = delivery.handled + 1
             /\ delivery'.enqueued = delivery.enqueued
             /\ nstart' = nstart + 1
          \/ /\ \E i \in 1..Len(sleepers) :
                   eventChan' = Append(eventChan, sleepers[i])
             /\ delivery'.enqueued = delivery.enqueued + 1
             /\ delivery'.handled = delivery.handled
    /\ delivery' # delivery => eventChan' # eventChan

C38_ListenerAlwaysPending ==
    /\ []C38_Inv
    /\ [][C38_Step]_vars
    /\ \A k \in 1..MaxWrites :
          (delivery.enqueued >= k) ~> (delivery.handled >= k)

\* two file-event messages enqueued, both handled, a listener waiting
C38_Witness ==
    /\ delivery.enqueued = 2
    /\ delivery.handled = 2
    /\ listeners >= 1


(***************************************************************************)
(* The cleanup sweep: CleanupOperations.FindAndCleanupStaleResources       *)
(* (operations/cleanup.go).  The sweep is one caller of the Manager; its   *)
(* calls of FindStaleSessions, DeleteSession and DeriveFreshSessions run   *)
(* the Manager's steps above, and a CreateSession of another caller may    *)
(* run beside it.  sweep holds the position of the sweep (pc), its         *)
(* argument (dryRun), its locals (stale, listed, todo), its CleanupStats   *)
(* (stats; err when it returns an error) and, as bookkeeping, what it      *)
(* destroyed as orphaned (killed, removed).  It works on the real tmux     *)
(* server and file system.                                                 *)
(***************************************************************************)
SweepProc == 2
CreatorProc == 1

\* the CreateSession calls made beside a sweep
MaxCreates == 1

\* "a/b", "c", "z", and "w": a tmux session that is not cwt's
SlashName == <<97, 47, 98>>
CreatedName == <<99>>
OrphanName == <<122>>
OtherTmux == <<119>>

SlashCore == NewCore(SlashName, 0)

CleanupPaths == { WorktreePath(n) : n \in {SlashName, CreatedName, OrphanName} }

\* a path relative to .cwt/worktrees/, and its first element
Rel(path) == SubSeq(path, Len(WorktreesDir) + 1, Len(path))

FirstElement(rel) ==
    IF \E i \in 1..Len(rel) : rel[i] = 47
    THEN SubSeq(rel, 1, (CHOOSE i \in 1..Len(rel) :
                            /\ rel[i] = 47
                            /\ \A j \in 1..(i - 1) : rel[j] # 47) - 1)
    ELSE rel

\* path is dir or lies below it
Under(path, dir) == path = dir \/ HasPrefix(path, dir \o <<47>>)

\* os.ReadDir(<DataDir>/worktrees): the names of its directories
ReadDir ==
    { FirstElement(Rel(w)) :
        w \in worktrees \cup { WorktreePath(s.name) : s \in settings } }

\* ";", "&", "|", "$", "`", "(", ")", "{", "}", "[", "]", "*", "?", "<", ">",
\* "~", " ", "\t", "\n", "\r"
dangerousChars ==
    { 59, 38, 124, 36, 96, 40, 41, 123, 125, 91, 93, 42, 63, 60, 62, 126,
      32, 9, 10, 13 }

isValidWorktreeName(name) ==
    /\ name # <<>>
    /\ ~Contains(name, <<46, 46>>)
    /\ ~Contains(name, <<0>>)
    /\ \A c \in dangerousChars : ~Contains(name, <<c>>)
    /\ ~HasPrefix(name, <<45>>)

\* CleanupOperations.removeWorktree(name): "git worktree remove", then
\* "--force", then os.RemoveAll: when one of them succeeds the directory
\* and all below it are gone
removeWorktree(name, ok) ==
    /\ ~isValidWorktreeName(name) => ~ok
    /\ worktrees' = IF ok
                    THEN { w \in worktrees : ~Under(w, WorktreePath(name)) }
                    ELSE worktrees
    /\ settings' = IF ok
                   THEN { s \in settings :
                            ~Under(WorktreePath(s.name), WorktreePath(name)) }
                   ELSE settings

\* CleanupOperations.killTmuxSession: "tmux kill-session -t"
killTmuxSession(tmuxName, ok) ==
    /\ ok => tmuxName \in tmuxAlive
    /\ tmuxAlive' = IF ok THEN tmuxAlive \ {tmuxName} ELSE tmuxAlive

\* the loop of findOrphanedTmuxSessions
OrphanedTmux(tmuxSessions, sessions) ==
    { t \in tmuxSessions :
        /\ HasPrefix(t, CwtPrefix)
        /\ t \notin { sessions[i].core.tmux_session : i \in 1..Len(sessions) } }

\* the loop of findOrphanedWorktrees
OrphanedWorktrees(entries, sessions) ==
    { e \in entries :
        e \notin { sessions[i].core.name : i \in 1..Len(sessions) } }

InitCleanup ==
    /\ impl = "real"
    /\ now = MaxClock
    /\ ncalls = 0
    /\ tempFile = MissingFile
    /\ responses = [ claude |-> [path \in CleanupPaths |-> UnknownStatus],
                     git |-> [path \in CleanupPaths |-> FALSE] ]
    /\ \E l \in { <<>>, << SlashCore >> } :
          /\ storeFile = IF l = <<>> THEN MissingFile ELSE JsonFile(l)
          /\ branches = { l[i].name : i \in 1..Len(l) }
          /\ settings = { [name |-> l[i].name, id |-> l[i].id] : i \in 1..Len(l) }
          /\ \E orphans \in SUBSET { WorktreePath(OrphanName) } :
                worktrees = { l[i].worktree_path : i \in 1..Len(l) } \cup orphans
    /\ tmuxAlive \in SUBSET { TmuxSession(SlashName), TmuxSession(OrphanName),
                              OtherTmux }
    /\ stateFiles = [id \in Ids |-> NoStateFile]
    /\ mu = Unlocked
    /\ pc = [p \in Procs |-> "idle"]
    /\ call = [p \in Procs |-> [op |-> "none", arg |-> <<>>]]
    /\ core = [p \in Procs |-> NoCore]
    /\ cores = [p \in Procs |-> <<>>]
    /\ result = [p \in Procs |-> "none"]
    /\ ret = [p \in Procs |-> NilSessions]
    /\ trace = [p \in Procs |-> <<>>]
    /\ NewBus
    /\ NoDashboard
    /\ Quiet

sweepOuter == UNCHANGED << busVars, tuiVars, valVars, hook, dialog >>

\* the sweep calls a method of the Manager
SweepCall(op, arg, where) ==
    /\ pc[SweepProc] = "idle"
    /\ call' = [call EXCEPT ![SweepProc] = [op |-> op, arg |-> arg]]
    /\ ret' = [ret EXCEPT ![SweepProc] = NilSessions]
    /\ trace' = [trace EXCEPT ![SweepProc] = <<>>]
    /\ Continue(SweepProc, where)
    /\ UNCHANGED << impl, now, ncalls, tempFile, responses, storeFile,
                    extVars, mu >>

\* the call of the sweep has returned
SweepCallDone == pc[SweepProc] = "idle"

\* the sweep returns an error
SweepFails(why) == sweep' = [sweep EXCEPT !.pc = "done", !.err = why]

\* FindAndCleanupStaleResources(dryRun) is called; it calls
\* FindStaleSessions
FindAndCleanupStaleResources(dryRun) ==
    /\ sweep.pc = "none"
    /\ SweepCall("FindStaleSessions", <<>>, "staleLock")
    /\ sweep' = [sweep EXCEPT !.pc = "FindStaleSessions", !.dryRun = dryRun]
    /\ sweepOuter

\* stats.StaleSessions = len(staleSessions), or the error
SweepStaleFound ==
    /\ sweep.pc = "FindStaleSessions"
    /\ SweepCallDone
    /\ IF result[SweepProc] # "ok"
       THEN SweepFails("FindStaleSessions")
       ELSE sweep' = [sweep EXCEPT
                        !.pc = "staleLoop",
                        !.stale = ret[SweepProc].list,
                        !.stats.StaleSessions = Len(ret[SweepProc].list)]
    /\ UNCHANGED mgrVars
    /\ sweepOuter

\* SweepStaleLoop deleting the stale sessions in a dry run too
SweepStaleLoop_IgnoreDryRun ==
    /\ sweep.pc = "staleLoop"
    /\ IF sweep.stale = <<>>
       THEN /\ sweep' = [sweep EXCEPT !.pc = "listTmux"]
            /\ UNCHANGED mgrVars
       ELSE /\ SweepCall("DeleteSession", Head(sweep.stale).core.id, "delLock")
            /\ sweep' = [sweep EXCEPT !.pc = "DeleteSession"]
    /\ sweepOuter

\* one turn of the loop over the stale sessions: continue in a dry run,
\* else the call of DeleteSession(session.Core.ID)
SweepStaleLoop ==
    /\ sweep.pc = "staleLoop"
    /\ IF sweep.stale = <<>>
       THEN /\ sweep' = [sweep EXCEPT !.pc = "listTmux"]
            /\ UNCHANGED mgrVars
       ELSE IF sweep.dryRun
       THEN /\ sweep' = [sweep EXCEPT !.stale = Tail(@)]
            /\ UNCHANGED mgrVars
       ELSE /\ SweepCall("DeleteSession", Head(sweep.stale).core.id, "delLock")
            /\ sweep' = [sweep EXCEPT !.pc = "DeleteSession"]
    /\ sweepOuter

\* DeleteSession has returned: stats.Failed++ or stats.Cleaned++
SweepDeleted ==
    /\ sweep.pc = "DeleteSession"
    /\ SweepCallDone
    /\ sweep' = [sweep EXCEPT
                   !.pc = "staleLoop",
                   !.stale = Tail(@),
                   !.stats = IF result[SweepProc] = "ok"
                             THEN [@ EXCEPT !.Cleaned = @ + 1]
                             ELSE [@ EXCEPT !.Failed = @ + 1]]
    /\ UNCHANGED mgrVars
    /\ sweepOuter

\* findOrphanedTmuxSessions: ListSessions, then the call of
\* DeriveFreshSessions
SweepListTmux ==
    /\ sweep.pc = "listTmux"
    /\ \E ok \in BOOLEAN :
          IF ok
          THEN /\ SweepCall("DeriveFreshSessions", <<>>, "deriveLock")
               /\ sweep' = [sweep EXCEPT !.pc = "findOrphanedTmuxSessions",
                                         !.listed = tmuxAlive]
          ELSE /\ SweepFails("ListSessions")
               /\ UNCHANGED mgrVars
    /\ sweepOuter

\* findOrphanedTmuxSessions returns: stats.OrphanedTmux
SweepOrphanedTmux ==
    /\ sweep.pc = "findOrphanedTmuxSessions"
    /\ SweepCallDone
    /\ IF result[SweepProc] # "ok"
       THEN SweepFails("DeriveFreshSessions")
       ELSE LET orphaned == OrphanedTmux(sweep.listed, ret[SweepProc].list)
            IN  sweep' = [sweep EXCEPT
                            !.pc = "tmuxLoop",
                            !.todo = orphaned,
                            !.stats.OrphanedTmux = Cardinality(orphaned)]
    /\ UNCHANGED mgrVars
    /\ sweepOuter

\* one turn of the loop over the orphaned tmux sessions
SweepKillLoop ==
    /\ sweep.pc = "tmuxLoop"
    /\ IF sweep.todo = {}
       THEN /\ sweep' = [sweep EXCEPT !.pc = "readDir"]
            /\ UNCHANGED mgrVars
       ELSE \E t \in sweep.todo :
               IF sweep.dryRun
               THEN /\ sweep' = [sweep EXCEPT !.todo = @ \ {t}]
                    /\ UNCHANGED mgrVars
               ELSE \E ok \in BOOLEAN :
                       /\ killTmuxSession(t, ok)
                       /\ sweep' = [sweep EXCEPT
                                      !.todo = @ \ {t},
                                      !.killed = IF ok THEN @ \cup {t} ELSE @,
                                      !.stats = IF ok
                                                THEN [@ EXCEPT !.Cleaned = @ + 1]
                                                ELSE [@ EXCEPT !.Failed = @ + 1]]
                       /\ UNCHANGED << impl, now, ncalls, storeFile, tempFile,
                                       responses, worktrees, branches, settings,
                                       stateFiles, mu, pc, call, core, cores,
                                       result, ret, trace >>
    /\ sweepOuter

\* findOrphanedWorktrees: os.Stat and os.ReadDir of the worktrees
\* directory, then the call of DeriveFreshSessions; an empty listing stands
\* for an empty directory or for none
SweepReadDir ==
    /\ sweep.pc = "readDir"
    /\ \E exists \in IF ReadDir = {} THEN BOOLEAN ELSE {TRUE} :
          IF ~exists
          THEN /\ sweep' = [sweep EXCEPT !.pc = "worktreeLoop", !.todo = {}]
               /\ UNCHANGED mgrVars
          ELSE \E ok \in BOOLEAN :
                  IF ok
                  THEN /\ SweepCall("DeriveFreshSessions", <<>>, "deriveLock")
                       /\ sweep' = [sweep EXCEPT !.pc = "findOrphanedWorktrees",
                                                 !.listed = ReadDir]
                  ELSE /\ SweepFails("ReadDir")
                       /\ UNCHANGED mgrVars
    /\ sweepOuter

\* findOrphanedWorktrees returns: stats.OrphanedWorktrees
SweepOrphanedWorktrees ==
    /\ sweep.pc = "findOrphanedWorktrees"
    /\ SweepCallDone
    /\ IF result[SweepProc] # "ok"
       THEN SweepFails("DeriveFreshSessions")
       ELSE LET orphaned == OrphanedWorktrees(sweep.listed, ret[SweepProc].list)
            IN  sweep' = [sweep EXCEPT
                            !.pc = "worktreeLoop",
                            !.todo = orphaned,
                            !.stats.OrphanedWorktrees = Cardinality(orphaned)]
    /\ UNCHANGED mgrVars
    /\ sweepOuter

\* one turn of the loop over the orphaned worktrees; after the last the
\* sweep returns its stats
SweepRemoveLoop ==
    /\ sweep.pc = "worktreeLoop"
    /\ IF sweep.todo = {}
       THEN /\ sweep' = [sweep EXCEPT !.pc = "done"]
            /\ UNCHANGED mgrVars
       ELSE \E e \in sweep.todo :
               IF sweep.dryRun
               THEN /\ sweep' = [sweep EXCEPT !.todo = @ \ {e}]
                    /\ UNCHANGED mgrVars
               ELSE \E ok \in BOOLEAN :
                       /\ removeWorktree(e, ok)
                       /\ sweep' = [sweep EXCEPT
                                      !.todo = @ \ {e},
                                      !.removed =
                                         IF ok
                                         THEN @ \cup { w \in worktrees :
                                                         Under(w, WorktreePath(e)) }
                                         ELSE @,
                                      !.stats = IF ok
                                                THEN [@ EXCEPT !.Cleaned = @ + 1]
                                                ELSE [@ EXCEPT !.Failed = @ + 1]]
                       /\ UNCHANGED << impl, now, ncalls, storeFile, tempFile,
                                       responses, tmuxAlive, branches,
                                       stateFiles, mu, pc, call, core, cores,
                                       result, ret, trace >>
    /\ sweepOuter

NextCleanup ==
    \/ \E dryRun \in BOOLEAN : FindAndCleanupStaleResources(dryRun)
    \/ SweepStaleFound
    \/ SweepStaleLoop
    \/ SweepDeleted
    \/ SweepListTmux
    \/ SweepOrphanedTmux
    \/ SweepKillLoop
    \/ SweepReadDir
    \/ SweepOrphanedWorktrees
    \/ SweepRemoveLoop
    \/ ncalls < MaxCreates /\ CreateSession(CreatorProc, CreatedName)
    \/ \E p \in Procs :
          \/ CheckDuplicate(p)
          \/ ValidateRepository(p)
          \/ ProvisionWorktree(p)
          \/ ProvisionSettings(p)
          \/ ProvisionTmux(p)
          \/ RollbackWorktree(p)
          \/ AddLock(p)
          \/ AddLoad(p)
          \/ AddSave(p)
          \/ CreateDone(p)
          \/ CleanupKill(p)
          \/ CleanupRemoveWorktree(p)
          \/ CleanupRemoveState(p)
          \/ DelLock(p)
          \/ DelLoad(p)
          \/ DelSave(p)
          \/ DeriveLock(p)
          \/ DeriveLoad(p)
          \/ StaleLock(p)
          \/ StaleLoad(p)

SpecCleanup == InitCleanup /\ [][NextCleanup]_vars


\* the step is one of the sweep: of its own code or of a Manager call it made
SweepStep == sweep' # sweep \/ pc'[SweepProc] # pc[SweepProc]

\* the records of the store as a derivation returns them
StoreSessions == DeriveSessions(StoreRecords)

(***************************************************************************)
(* C31: a cleanup in dry-run mode changes nothing: it calls no             *)
(* DeleteSession, kills no tmux session and removes no worktree, so no     *)
(* step of the sweep changes the store or an external resource; the        *)
(* counts of the stale sessions and of the orphaned resources it found are *)
(* reported all the same, and the cleaned count is 0.                      *)
(***************************************************************************)
C31_Inv ==
    sweep.dryRun =>
       /\ sweep.stats.Cleaned = 0
       /\ sweep.stats.Failed = 0
       /\ sweep.killed = {}
       /\ sweep.removed = {}
       /\ call[SweepProc].op # "DeleteSession"
       /\ (sweep.pc = "done" /\ sweep.err = "none" /\ ncalls = 0) =>
             /\ sweep.stats.StaleSessions = Cardinality(DeadAt)
             /\ sweep.stats.OrphanedTmux =
                   Cardinality(OrphanedTmux(tmuxAlive, StoreSessions))
             /\ sweep.stats.OrphanedWorktrees =
                   Cardinality(OrphanedWorktrees(ReadDir, StoreSessions))

C31_Step ==
    (sweep'.dryRun /\ SweepStep) =>
       UNCHANGED << storeFile, tempFile, tmuxAlive, worktrees, branches,
                    settings, stateFiles >>

C31_DryRunChangesNothing == []C31_Inv /\ [][C31_Step]_vars

\* a dry run has returned: one stale session, one orphaned tmux session and
\* an orphaned worktree reported, nothing cleaned
C31_Witness ==
    /\ sweep.pc = "done"
    /\ sweep.err = "none"
    /\ sweep.dryRun
    /\ sweep.stats.StaleSessions = 1
    /\ sweep.stats.OrphanedTmux = 1
    /\ sweep.stats.OrphanedWorktrees >= 1
    /\ sweep.stats.Cleaned = 0
    /\ TmuxSession(OrphanName) \in tmuxAlive
    /\ WorktreePath(OrphanName) \in worktrees
    /\ StoreRecords = << SlashCore >>

(***************************************************************************)
(* C32: every resource the sweep destroys as orphaned has no record in the *)
(* store: a tmux session it kills has the "cwt-" prefix and is the tmux    *)
(* session of no record, and a worktree it removes is the worktree of no   *)
(* record, for every valid session name, one that contains "/" included.   *)
(* Stated for a sweep that runs alone.                                     *)
(***************************************************************************)
C32_OrphansOnly ==
    ncalls = 0 =>
       /\ \A t \in sweep.killed :
             /\ HasPrefix(t, CwtPrefix)
             /\ \A i \in 1..Len(StoreRecords) : StoreRecords[i].tmux_session # t
       /\ \A w \in sweep.removed :
             \A i \in 1..Len(StoreRecords) : StoreRecords[i].worktree_path # w

(***************************************************************************)
(* C36: a sweep that runs beside a CreateSession call never kills the tmux *)
(* session or removes the worktree of a session whose creation goes on to  *)
(* succeed: when CreateSession returns success, the worktree and the tmux  *)
(* session it provisioned are there.                                       *)
(***************************************************************************)
C36_Step ==
    \A p \in Procs :
       (/\ call[p].op = "CreateSession"
        /\ pc[p] = "deriveSession"
        /\ pc'[p] = "idle"
        /\ result'[p] = "ok")
       => /\ core[p].worktree_path \in worktrees'
          /\ core[p].tmux_session \in tmuxAlive'

C36_CreatedSessionKeepsResources == [][C36_Step]_vars

====
